---- MODULE Spec2Model ----
(***************************************************************************)
(* Model of the developer-todos engine: TodoManager (templates, per-branch *)
(* todo maps, persisted snapshot) and TemplateMatcher.                     *)
(*                                                                         *)
(* JavaScript strings on which the code computes (paths, glob patterns,    *)
(* file contents, template ids, todo ids) are sequences of one-character   *)
(* strings, so that concatenation, substring search and glob matching are  *)
(* computed.  Strings that are only copied (branch names, display fields)  *)
(* are TLA+ strings.  An optional value (a property that may be undefined) *)
(* is <<>> when undefined and <<v>> when it holds v.                       *)
(***************************************************************************)
EXTENDS Integers, Sequences, FiniteSets, TLC

\* world:     the workspace (its files, .todo.json versions, git changes)
\* templates: TodoManager.templates
\* todos:     TodoManager.todos, branch -> todoId -> TodoInstance
\* stored:    workspaceState 'todoState', the persisted snapshot
\* pc:        where initialize() stands; "ready" once it has completed,
\*            "failed" once it has thrown
\* lastOp:    the last operation run, whether it called saveState and how
\*            often it fired onTodosChanged
\* awaiting:  the createBranchLevelTodos call that stands at its
\*            `await this.findTriggeringFiles(template)`, None when no call
\*            does
\* watcher:   FileWatcher, per path: its debounce timer and what became of
\*            the change events for the path
\* listener:  FileWatcher's git-state listener and dispose()
\* git:       GitService: the repository's HEAD, the branch-change
\*            listener's lastBranch and the last onBranchChange event
VARIABLES world, templates, todos, stored, pc, lastOp, awaiting, watcher, listener, git

vars == <<world, templates, todos, stored, pc, lastOp, awaiting, watcher, listener, git>>

----------------------------------------------------------------------------
(* Bounds of the model *)

\* timestamps produced by new Date().toISOString() range over 1..MaxTime
MaxTime == 1

\* at most MaxBurst change events reach a path before its timer expires
MaxBurst == 2

----------------------------------------------------------------------------
(* Optional values and JavaScript truthiness *)

None == <<>>

Some(v) == <<v>>

\* truthiness of an optional boolean (undefined and false are falsy)
Truthy(o) == o = <<TRUE>>

\* truthiness of a string (undefined and "" are both falsy and both <<>>)
NonEmpty(s) == s # <<>>

----------------------------------------------------------------------------
(* Strings as character sequences *)

Slash == "/"

Star == "*"

Dot == "."

\* the segments of a path or pattern: s.split("/")
RECURSIVE SplitAt(_, _, _)
SplitAt(s, sep, cur) ==
  IF s = <<>> THEN <<cur>>
  ELSE IF Head(s) = sep THEN <<cur>> \o SplitAt(Tail(s), sep, <<>>)
  ELSE SplitAt(Tail(s), sep, Append(cur, Head(s)))

Split(s) == SplitAt(s, Slash, <<>>)

\* String.prototype.includes: needle occurs in hay as a literal substring
Includes(hay, needle) ==
  \E i \in 1..(Len(hay) + 1) :
     /\ i + Len(needle) - 1 <= Len(hay)
     /\ SubSeq(hay, i, i + Len(needle) - 1) = needle

\* Array.prototype.includes on an array of strings
ArrIncludes(arr, x) == \E i \in 1..Len(arr) : arr[i] = x

----------------------------------------------------------------------------
(* minimatch(path, pattern, {dot: true, matchBase: false}) *)

\* one path segment against one pattern segment; "*" matches any run of
\* characters of the segment (with dot: true also a leading dot)
RECURSIVE SegMatch(_, _)
SegMatch(pat, s) ==
  IF pat = <<>> THEN s = <<>>
  ELSE IF Head(pat) = Star
       THEN SegMatch(Tail(pat), s) \/ (s # <<>> /\ SegMatch(pat, Tail(s)))
       ELSE s # <<>> /\ Head(s) = Head(pat) /\ SegMatch(Tail(pat), Tail(s))

GlobStar == <<Star, Star>>

\* segment lists; a "**" segment matches zero or more whole segments
RECURSIVE SegsMatch(_, _)
SegsMatch(pat, p) ==
  IF pat = <<>> THEN p = <<>>
  ELSE IF Head(pat) = GlobStar
       THEN SegsMatch(Tail(pat), p) \/ (p # <<>> /\ SegsMatch(pat, Tail(p)))
       ELSE p # <<>> /\ SegMatch(Head(pat), Head(p)) /\ SegsMatch(Tail(pat), Tail(p))

minimatch(relativePath, pattern) == SegsMatch(Split(pattern), Split(relativePath))

----------------------------------------------------------------------------
(* path.relative, path.extname, toLowerCase *)

\* TodoManager.workspaceRoot
workspaceRoot == <<"/","w">>

\* path.join(workspaceRoot, rel): the absolute path of a workspace file
AbsPath(rel) == workspaceRoot \o <<Slash>> \o rel

\* path.relative(workspaceRoot, filePath) for a path under the root
Relative(filePath) == SubSeq(filePath, Len(workspaceRoot) + 2, Len(filePath))

Upper == <<"A","B","C","D","E","F","G","H","I","J","K","L","M",
           "N","O","P","Q","R","S","T","U","V","W","X","Y","Z">>

Lower == <<"a","b","c","d","e","f","g","h","i","j","k","l","m",
           "n","o","p","q","r","s","t","u","v","w","x","y","z">>

LowerChar(c) ==
  IF \E i \in 1..Len(Upper) : Upper[i] = c
  THEN Lower[CHOOSE i \in 1..Len(Upper) : Upper[i] = c]
  ELSE c

ToLowerCase(s) == [i \in 1..Len(s) |-> LowerChar(s[i])]

\* path.extname: from the last "." of the base name, "" when there is none
\* or when the only one leads the base name
ExtName(p) ==
  LET segs == Split(p)
      base == segs[Len(segs)]
      dots == {i \in 1..Len(base) : base[i] = Dot}
  IN  IF dots = {} THEN <<>>
      ELSE LET last == CHOOSE i \in dots : \A j \in dots : j <= i
           IN  IF last = 1 THEN <<>> ELSE SubSeq(base, last, Len(base))

binaryExtensions ==
  {
    <<".","p","n","g">>, <<".","j","p","g">>, <<".","j","p","e","g">>,
    <<".","g","i","f">>, <<".","b","m","p">>, <<".","i","c","o">>,
    <<".","s","v","g">>, <<".","p","d","f">>, <<".","z","i","p">>,
    <<".","t","a","r">>, <<".","g","z">>, <<".","r","a","r">>,
    <<".","7","z">>, <<".","e","x","e">>, <<".","d","l","l">>,
    <<".","s","o">>, <<".","d","y","l","i","b">>, <<".","m","p","3">>,
    <<".","m","p","4">>, <<".","a","v","i">>, <<".","m","o","v">>,
    <<".","w","a","v">>, <<".","t","t","f">>, <<".","o","t","f">>,
    <<".","w","o","f","f">>, <<".","w","o","f","f","2">>, <<".","e","o","t">>,
    <<".","c","l","a","s","s">>, <<".","j","a","r">>, <<".","w","a","r">>
  }

isBinaryFile(filePath) == ToLowerCase(ExtName(filePath)) \in binaryExtensions

----------------------------------------------------------------------------
(* Map<string, V> and plain JSON objects: functions from keys to values.  *)
(* (Iteration order is not modelled; no modelled operation depends on it.) *)

EmptyMap == <<>>

MapHas(m, key) == key \in DOMAIN m

\* Map.set: adds the key or replaces its value
MapSet(m, key, val) == [x \in (DOMAIN m) \cup {key} |-> IF x = key THEN val ELSE m[x]]

\* Map.delete
MapDelete(m, key) == [x \in (DOMAIN m) \ {key} |-> m[x]]

----------------------------------------------------------------------------
(* The workspace the engine runs in: branches, files, .todo.json versions *)

Times == 1..MaxTime

fileA == <<"s","r","c","/","a",".","g","o">>

fileB == <<"s","r","c","/","b",".","g","o">>

fileDoc == <<"d","o","c","/","r",".","m","d">>

fileImg == <<"s","r","c","/","i",".","P","N","G">>

withMarker == <<"x","@","A">>

plain == <<"x">>

withBoth == <<"x","@","A","!">>

\* TodoTemplate values (.todo.json entries)
tplFile ==
  [id |-> <<"t","1">>, name |-> "Add permission", description |-> "d1",
   applyTo |-> <<"*","*","/","*",".","g","o">>,
   fileContains |-> <<"@","A">>, excludeFileContains |-> <<>>,
   priority |-> Some("high"), branchLevel |-> None, aiInstruction |-> None]

tplPure ==
  [id |-> <<"d","e","p">>, name |-> "Deploy", description |-> "d2",
   applyTo |-> <<>>, fileContains |-> <<>>, excludeFileContains |-> <<>>,
   priority |-> Some("low"), branchLevel |-> Some(TRUE), aiInstruction |-> None]

tplAgg ==
  [id |-> <<"T">>, name |-> "Review go", description |-> "d3",
   applyTo |-> <<"s","r","c","/","*","*","/","*",".","g","o">>,
   fileContains |-> <<>>, excludeFileContains |-> <<>>,
   priority |-> None, branchLevel |-> Some(TRUE), aiInstruction |-> None]

\* a branch-level template with applyTo and a content condition
tplAggMarked ==
  [tplAgg EXCEPT !.id = <<"T","M">>, !.name = "Review marked",
                 !.fileContains = <<"@","A">>]

\* file-scoped, with both content conditions and no priority
tplEx ==
  [id |-> <<"e","x">>, name |-> "Add test", description |-> "d4",
   applyTo |-> <<"s","r","c","/","*">>,
   fileContains |-> <<"@","A">>, excludeFileContains |-> <<"!">>,
   priority |-> None, branchLevel |-> None, aiInstruction |-> Some("ai")]

\* file-scoped (branchLevel: false), with a path pattern only
tplPath ==
  [id |-> <<"p">>, name |-> "Update docs", description |-> "d5",
   applyTo |-> <<"d","o","c","/","*">>,
   fileContains |-> <<>>, excludeFileContains |-> <<>>,
   priority |-> Some("low"), branchLevel |-> Some(FALSE), aiInstruction |-> None]

\* a second entry with the id of tplFile, on the same pattern, without
\* content conditions and without priority
tplTwin ==
  [tplFile EXCEPT !.name = "Review", !.description = "d6",
                  !.fileContains = <<>>, !.priority = None]

\* tplFile after an edit of its display fields only
tplRenamed ==
  [tplFile EXCEPT !.name = "Check permission", !.description = "d7",
                  !.priority = None]

\* tplFile after an edit of its display fields and of fileContains, to a
\* marker that no file of the workspace holds
tplNarrowed ==
  [tplFile EXCEPT !.name = "Check role", !.description = "d8",
                  !.priority = Some("low"), !.fileContains = <<"@","B">>]

\* what reading .todo.json can give: no file, an unusable document, or a
\* document with a templates array
ConfigMissing == [kind |-> "missing", templates |-> <<>>]

ConfigInvalid == [kind |-> "invalid", templates |-> <<>>]

ConfigOk(ts) == [kind |-> "ok", templates |-> ts]

\* A workspace: its branches, its files, what a read of each file can
\* return (None: the read throws), the versions .todo.json goes through,
\* the lists GitService.getChangedFiles can return, whether a
\* workspaceState.update resolves (TRUE) or rejects (FALSE), and whether the
\* host delivers events while a createBranchLevelTodos call is awaiting

\* two branches, one file-scoped template: the same todo id on both branches
WorldIso ==
  [branches |-> {"main", "feature/x"},
   files    |-> {fileA},
   reads    |-> {[f \in {fileA} |-> c] : c \in {Some(withMarker), Some(plain)}},
   configs  |-> {ConfigOk(<<tplFile>>)},
   changed  |-> {<<fileA>>},
   writes   |-> {TRUE},
   overlap  |-> FALSE,
   repository |-> TRUE]

\* a file-scoped and a pure branch-level template, removed by later
\* versions of .todo.json; a matching, a non-matching and a binary file
WorldFile ==
  [branches |-> {"main"},
   files    |-> {fileA, fileDoc, fileImg},
   reads    |-> {[f \in {fileA, fileDoc, fileImg} |->
                    IF f = fileA THEN c ELSE Some(plain)] :
                 c \in {Some(withMarker), Some(plain), None}},
   configs  |-> {ConfigOk(<<tplFile, tplPure>>), ConfigOk(<<tplPure>>),
                 ConfigMissing, ConfigInvalid},
   changed  |-> {<<>>, <<fileDoc, fileA, fileImg>>},
   writes   |-> {TRUE},
   overlap  |-> FALSE,
   repository |-> TRUE]

\* a branch-level template with applyTo on two branches, one file that
\* matches it, readable or not, and one that does not
WorldAgg ==
  [branches |-> {"main", "feature/x"},
   files    |-> {fileA, fileDoc},
   reads    |-> {[f \in {fileA, fileDoc} |-> IF f = fileA THEN c ELSE Some(plain)] :
                 c \in {Some(plain), None}},
   configs  |-> {ConfigOk(<<tplAgg>>)},
   changed  |-> {<<fileDoc>>, <<fileA>>, <<fileA, fileDoc>>},
   writes   |-> {TRUE},
   overlap  |-> FALSE,
   repository |-> TRUE]

\* a branch-level template with applyTo and fileContains; the content of
\* one matching file varies
WorldMarked ==
  [branches |-> {"main"},
   files    |-> {fileA, fileB},
   reads    |-> {[f \in {fileA, fileB} |->
                    IF f = fileA THEN c ELSE Some(withMarker)] :
                 c \in {Some(withMarker), Some(plain), None}},
   configs  |-> {ConfigOk(<<tplAggMarked>>)},
   changed  |-> {<<>>, <<fileA>>, <<fileA, fileB>>},
   writes   |-> {TRUE},
   overlap  |-> FALSE,
   repository |-> TRUE]

\* two file-scoped templates on different path patterns, one with both
\* content conditions and one with none; text files whose content varies
\* or that cannot be read, and a binary file with the marker
WorldMatch ==
  [branches |-> {"main"},
   files    |-> {fileA, fileDoc, fileImg},
   reads    |-> {[f \in {fileA, fileDoc, fileImg} |->
                    IF f = fileA THEN c ELSE IF f = fileDoc THEN d ELSE Some(withMarker)] :
                 c \in {Some(withMarker), Some(plain), Some(withBoth), None},
                 d \in {Some(plain), None}},
   configs  |-> {ConfigOk(<<tplEx, tplPath>>)},
   changed  |-> {<<fileA, fileDoc, fileImg>>},
   writes   |-> {TRUE},
   overlap  |-> FALSE,
   repository |-> TRUE]

\* a .todo.json in which two entries share an id
WorldTwin ==
  [branches |-> {"main"},
   files    |-> {fileA},
   reads    |-> {[f \in {fileA} |-> c] : c \in {Some(withMarker), Some(plain)}},
   configs  |-> {ConfigOk(<<tplFile, tplTwin>>)},
   changed  |-> {<<fileA>>},
   writes   |-> {TRUE},
   overlap  |-> FALSE,
   repository |-> TRUE]

\* one file-scoped template whose .todo.json entry is edited between
\* loads: its display fields, or also its content condition
WorldEdit ==
  [branches |-> {"main"},
   files    |-> {fileA},
   reads    |-> {[f \in {fileA} |-> Some(withMarker)]},
   configs  |-> {ConfigOk(<<tplFile>>), ConfigOk(<<tplRenamed>>),
                 ConfigOk(<<tplNarrowed>>)},
   changed  |-> {<<fileA>>},
   writes   |-> {TRUE},
   overlap  |-> FALSE,
   repository |-> TRUE]

\* a pure branch-level template in a workspace without files, where a
\* write of the snapshot can fail
WorldDisk ==
  [branches |-> {"main"},
   files    |-> {},
   reads    |-> {<<>>},
   configs  |-> {ConfigOk(<<tplPure>>)},
   changed  |-> {<<>>},
   writes   |-> {TRUE, FALSE},
   overlap  |-> FALSE,
   repository |-> TRUE]

\* a branch-level template with applyTo and one file that matches it;
\* file saves and commands arrive while createBranchLevelTodos awaits
WorldRace ==
  [branches |-> {"main"},
   files    |-> {fileA},
   reads    |-> {[f \in {fileA} |-> Some(plain)]},
   configs  |-> {ConfigOk(<<tplAgg>>)},
   changed  |-> {<<>>, <<fileA>>},
   writes   |-> {TRUE},
   overlap  |-> TRUE,
   repository |-> TRUE]

Worlds ==
  {WorldIso, WorldFile, WorldAgg, WorldMarked, WorldMatch, WorldTwin, WorldEdit,
   WorldDisk, WorldRace}

----------------------------------------------------------------------------
(* TemplateMatcher *)

\* pathMatchesAnyTemplate: path-only check over the file-based templates
pathMatchesAnyTemplate(relativePath, ts) ==
  LET isFileTemplate(t) == NonEmpty(t.applyTo) /\ ~Truthy(t.branchLevel)
      fileTemplates == SelectSeq(ts, isFileTemplate)
  IN  \E i \in 1..Len(fileTemplates) :
         minimatch(relativePath, fileTemplates[i].applyTo)

\* the quick path check of createTodosForFile: file templates first, then
\* the branch-level templates with applyTo, passed with branchLevel: false
QuickPathCheck(relativePath, ts) ==
  \/ pathMatchesAnyTemplate(relativePath, ts)
  \/ LET hasBoth(t) == Truthy(t.branchLevel) /\ NonEmpty(t.applyTo)
         branchLevelWithApplyTo == SelectSeq(ts, hasBoth)
         asFile == [i \in 1..Len(branchLevelWithApplyTo) |->
                      [branchLevelWithApplyTo[i] EXCEPT !.branchLevel = Some(FALSE)]]
     IN  pathMatchesAnyTemplate(relativePath, asFile)

\* matchesTemplate(relativePath, fileContent, template)
matchesTemplate(relativePath, fileContent, template) ==
  IF Truthy(template.branchLevel) \/ ~NonEmpty(template.applyTo) THEN FALSE
  ELSE IF ~minimatch(relativePath, template.applyTo) THEN FALSE
  ELSE IF NonEmpty(template.fileContains)
          /\ ~Includes(fileContent, template.fileContains) THEN FALSE
  ELSE IF NonEmpty(template.excludeFileContains)
          /\ Includes(fileContent, template.excludeFileContains) THEN FALSE
  ELSE TRUE

\* getMatchingTemplates: templates.filter(matchesTemplate)
getMatchingTemplates(relativePath, fileContent, ts) ==
  LET matches(t) == matchesTemplate(relativePath, fileContent, t)
  IN  SelectSeq(ts, matches)

\* ContentOk without the excludeFileContains test
ContentOkIgnoresExclude(template, content) ==
  ~(NonEmpty(template.fileContains) /\ ~Includes(content, template.fileContains))

\* the path and content conditions of one template on one file
\* (createTodosForFile's loop and findTriggeringFiles test them alike)
ContentOk(template, content) ==
  /\ ~(NonEmpty(template.fileContains) /\ ~Includes(content, template.fileContains))
  /\ ~(NonEmpty(template.excludeFileContains) /\ Includes(content, template.excludeFileContains))

----------------------------------------------------------------------------
(* TodoInstance construction and identity *)

branchPrefix == <<"b","r","a","n","c","h",":">>

\* `branch:${template.id}`
BranchTodoId(templateId) == branchPrefix \o templateId

\* `${template.id}:${relativePath}`
FileTodoId(templateId, relativePath) == templateId \o <<":">> \o relativePath

\* template.priority || 'medium'
PriorityOf(template) == IF template.priority = None THEN "medium" ELSE template.priority[1]

\* the branch-level instance createTodosForFile and createBranchLevelTodos
\* build; triggeringFiles is None (undefined) or Some(list)
NewBranchTodo(template, branch, triggeringFiles) ==
  [id |-> BranchTodoId(template.id), templateId |-> template.id,
   name |-> template.name, description |-> template.description,
   filePath |-> None, relativePath |-> None,
   priority |-> PriorityOf(template),
   completed |-> FALSE, completedAt |-> None,
   ignored |-> FALSE, ignoredAt |-> None,
   branch |-> branch, branchLevel |-> Some(TRUE),
   triggeringFiles |-> triggeringFiles,
   aiInstruction |-> template.aiInstruction]

\* NewFileTodo whose id is the template's id, without the path
NewFileTodoTemplateId(template, branch, filePath, relativePath) ==
  [id |-> template.id, templateId |-> template.id,
   name |-> template.name, description |-> template.description,
   filePath |-> Some(filePath), relativePath |-> Some(relativePath),
   priority |-> PriorityOf(template),
   completed |-> FALSE, completedAt |-> None,
   ignored |-> FALSE, ignoredAt |-> None,
   branch |-> branch, branchLevel |-> None,
   triggeringFiles |-> None,
   aiInstruction |-> template.aiInstruction]

\* the file-scoped instance createTodosForFile builds
NewFileTodo(template, branch, filePath, relativePath) ==
  [id |-> FileTodoId(template.id, relativePath), templateId |-> template.id,
   name |-> template.name, description |-> template.description,
   filePath |-> Some(filePath), relativePath |-> Some(relativePath),
   priority |-> PriorityOf(template),
   completed |-> FALSE, completedAt |-> None,
   ignored |-> FALSE, ignoredAt |-> None,
   branch |-> branch, branchLevel |-> None,
   triggeringFiles |-> None,
   aiInstruction |-> template.aiInstruction]

----------------------------------------------------------------------------
(* Persistence: saveState and loadState *)

\* PersistedTodo as saveState wrote it before branch-level todos existed:
\* branchLevel and triggeringFiles are not written
PersistedTodoFileOnly(todo) ==
  [completed |-> todo.completed, completedAt |-> todo.completedAt,
   ignored |-> todo.ignored, ignoredAt |-> todo.ignoredAt,
   filePath |-> todo.filePath, templateId |-> todo.templateId,
   branchLevel |-> None, triggeringFiles |-> None]

\* the entry saveState writes for one instance; JSON drops undefined
\* properties, which read back as undefined (None)
PersistedTodo(todo) ==
  [completed |-> todo.completed, completedAt |-> todo.completedAt,
   ignored |-> todo.ignored, ignoredAt |-> todo.ignoredAt,
   filePath |-> todo.filePath, templateId |-> todo.templateId,
   branchLevel |-> todo.branchLevel, triggeringFiles |-> todo.triggeringFiles]

\* saveState: the TodoState object built from the in-memory map
Snapshot(tds) ==
  [b \in DOMAIN tds |->
     [todos |-> [id \in DOMAIN tds[b] |-> PersistedTodo(tds[b][id])]]]

\* this.templates.find((t) => t.id === templateId): None or Some(first match)
FindTemplate(ts, templateId) ==
  LET hits == {i \in 1..Len(ts) : ts[i].id = templateId}
  IN  IF hits = {} THEN None
      ELSE Some(ts[CHOOSE i \in hits : \A j \in hits : i <= j])

\* RestoredTodo that gives every restored instance the default priority
RestoredTodoDefaultPriority(todoId, todoData, template, branch) ==
  LET isBranchLevel == Truthy(todoData.branchLevel) \/ todoData.filePath = None
  IN  [id |-> todoId, templateId |-> template.id,
       name |-> template.name, description |-> template.description,
       filePath |-> todoData.filePath,
       relativePath |-> IF isBranchLevel THEN None
                        ELSE Some(Relative(todoData.filePath[1])),
       priority |-> "medium",
       completed |-> todoData.completed, completedAt |-> todoData.completedAt,
       ignored |-> todoData.ignored, ignoredAt |-> todoData.ignoredAt,
       branch |-> branch, branchLevel |-> Some(isBranchLevel),
       triggeringFiles |-> todoData.triggeringFiles,
       aiInstruction |-> template.aiInstruction]

\* the instance loadState restores from one persisted entry
RestoredTodo(todoId, todoData, template, branch) ==
  LET isBranchLevel == Truthy(todoData.branchLevel) \/ todoData.filePath = None
  IN  [id |-> todoId, templateId |-> template.id,
       name |-> template.name, description |-> template.description,
       filePath |-> todoData.filePath,
       relativePath |-> IF isBranchLevel THEN None
                        ELSE Some(Relative(todoData.filePath[1])),
       priority |-> PriorityOf(template),
       completed |-> todoData.completed, completedAt |-> todoData.completedAt,
       ignored |-> todoData.ignored, ignoredAt |-> todoData.ignoredAt,
       branch |-> branch, branchLevel |-> Some(isBranchLevel),
       triggeringFiles |-> todoData.triggeringFiles,
       aiInstruction |-> template.aiInstruction]

\* LoadedTodos without the `continue` for a missing template: the entry
\* is restored with empty display fields
LoadedTodosKeepOrphans(tds, state, ts) ==
  [b \in (DOMAIN tds) \cup (DOMAIN state) |->
     IF b \in DOMAIN state
     THEN LET entries == state[b].todos
          IN  [id \in DOMAIN entries |->
                 RestoredTodo(id, entries[id],
                              IF FindTemplate(ts, entries[id].templateId) # None
                              THEN FindTemplate(ts, entries[id].templateId)[1]
                              ELSE [id |-> entries[id].templateId, name |-> "",
                                    description |-> "", priority |-> None,
                                    aiInstruction |-> None],
                              b)]
     ELSE tds[b]]

\* loadState: every persisted branch is set in the map; entries whose
\* template is not loaded are skipped
LoadedTodos(tds, state, ts) ==
  [b \in (DOMAIN tds) \cup (DOMAIN state) |->
     IF b \in DOMAIN state
     THEN LET entries == state[b].todos
              kept == {id \in DOMAIN entries :
                         FindTemplate(ts, entries[id].templateId) # None}
          IN  [id \in kept |->
                 RestoredTodo(id, entries[id],
                              FindTemplate(ts, entries[id].templateId)[1], b)]
     ELSE tds[b]]

----------------------------------------------------------------------------
(* createTodosForFile *)

\* the get-or-create of the branch map
WithBranch(tds, branch) ==
  IF MapHas(tds, branch) THEN tds ELSE MapSet(tds, branch, EmptyMap)

\* FileStep without the two "already exists" tests: the instance is built
\* anew on every evaluation
FileStepNoSkip(acc, template, branch, filePath, relativePath, content) ==
  IF ~NonEmpty(template.applyTo) THEN acc
  ELSE IF ~minimatch(relativePath, template.applyTo) THEN acc
  ELSE IF ~ContentOk(template, content) THEN acc
  ELSE IF Truthy(template.branchLevel)
  THEN [acc EXCEPT !.m = MapSet(acc.m, BranchTodoId(template.id),
                            NewBranchTodo(template, branch, Some(<<relativePath>>))),
                   !.changed = TRUE]
  ELSE [acc EXCEPT !.m = MapSet(acc.m, FileTodoId(template.id, relativePath),
                            NewFileTodo(template, branch, filePath, relativePath)),
                   !.changed = TRUE]

\* FileStep without the includes test before the push: a file evaluated
\* again is recorded again
FileStepAlwaysPush(acc, template, branch, filePath, relativePath, content) ==
  IF ~NonEmpty(template.applyTo) THEN acc
  ELSE IF ~minimatch(relativePath, template.applyTo) THEN acc
  ELSE IF ~ContentOk(template, content) THEN acc
  ELSE IF Truthy(template.branchLevel)
  THEN LET todoId == BranchTodoId(template.id)
       IN  IF ~MapHas(acc.m, todoId)
           THEN [acc EXCEPT !.m = MapSet(acc.m, todoId,
                              NewBranchTodo(template, branch, Some(<<relativePath>>))),
                            !.changed = TRUE]
           ELSE [acc EXCEPT !.m[todoId].triggeringFiles =
                              Some(Append(IF @ = None THEN <<>> ELSE @[1], relativePath)),
                            !.changed = TRUE]
  ELSE LET todoId == FileTodoId(template.id, relativePath)
       IN  IF MapHas(acc.m, todoId) THEN acc
           ELSE [acc EXCEPT !.m = MapSet(acc.m, todoId,
                              NewFileTodo(template, branch, filePath, relativePath)),
                            !.changed = TRUE]

\* FileStep with the content conditions tested before the path pattern
FileStepContentFirst(acc, template, branch, filePath, relativePath, content) ==
  IF ~NonEmpty(template.applyTo) THEN acc
  ELSE LET seen == [acc EXCEPT !.checked = @ \cup {template.id}]
       IN  IF ~ContentOk(template, content) THEN seen
           ELSE IF ~minimatch(relativePath, template.applyTo) THEN seen
           ELSE IF Truthy(template.branchLevel)
           THEN LET todoId == BranchTodoId(template.id)
                IN  IF ~MapHas(seen.m, todoId)
                    THEN [seen EXCEPT !.m = MapSet(seen.m, todoId,
                                       NewBranchTodo(template, branch, Some(<<relativePath>>))),
                                      !.changed = TRUE]
                    ELSE seen
           ELSE LET todoId == FileTodoId(template.id, relativePath)
                IN  IF MapHas(seen.m, todoId) THEN seen
                    ELSE [seen EXCEPT !.m = MapSet(seen.m, todoId,
                                       NewFileTodo(template, branch, filePath, relativePath)),
                                      !.changed = TRUE]

\* FileStep that removes the file's todo when the file matches the path
\* pattern and no longer passes the content conditions
FileStepDropsUnmatched(acc, template, branch, filePath, relativePath, content) ==
  IF ~NonEmpty(template.applyTo) THEN acc
  ELSE IF ~minimatch(relativePath, template.applyTo) THEN acc
  ELSE LET seen == [acc EXCEPT !.checked = @ \cup {template.id}]
       IN  IF ~ContentOk(template, content)
           THEN IF MapHas(seen.m, FileTodoId(template.id, relativePath))
                THEN [seen EXCEPT !.m = MapDelete(seen.m, FileTodoId(template.id, relativePath)),
                                  !.changed = TRUE]
                ELSE seen
           ELSE IF Truthy(template.branchLevel)
           THEN LET todoId == BranchTodoId(template.id)
                IN  IF ~MapHas(seen.m, todoId)
                    THEN [seen EXCEPT !.m = MapSet(seen.m, todoId,
                                       NewBranchTodo(template, branch, Some(<<relativePath>>))),
                                      !.changed = TRUE]
                    ELSE seen
           ELSE LET todoId == FileTodoId(template.id, relativePath)
                IN  IF MapHas(seen.m, todoId) THEN seen
                    ELSE [seen EXCEPT !.m = MapSet(seen.m, todoId,
                                       NewFileTodo(template, branch, filePath, relativePath)),
                                      !.changed = TRUE]

\* one iteration of the loop over this.templates; acc = [m, changed,
\* checked] is the branch map, the todosChanged flag, and the ids of the
\* templates whose content conditions the loop has reached
FileStep(acc, template, branch, filePath, relativePath, content) ==
  IF ~NonEmpty(template.applyTo) THEN acc
  ELSE IF ~minimatch(relativePath, template.applyTo) THEN acc
  ELSE LET seen == [acc EXCEPT !.checked = @ \cup {template.id}]
       IN  IF ~ContentOk(template, content) THEN seen
           ELSE IF Truthy(template.branchLevel)
           THEN LET todoId == BranchTodoId(template.id)
                IN  IF ~MapHas(seen.m, todoId)
                    THEN [seen EXCEPT !.m = MapSet(seen.m, todoId,
                                       NewBranchTodo(template, branch, Some(<<relativePath>>))),
                                      !.changed = TRUE]
                    ELSE LET todo == seen.m[todoId]
                             files == IF todo.triggeringFiles = None THEN <<>>
                                      ELSE todo.triggeringFiles[1]
                         IN  IF ArrIncludes(files, relativePath)
                             THEN [seen EXCEPT !.m[todoId].triggeringFiles = Some(files)]
                             ELSE [seen EXCEPT !.m[todoId].triggeringFiles =
                                                 Some(Append(files, relativePath)),
                                               !.changed = TRUE]
           ELSE LET todoId == FileTodoId(template.id, relativePath)
                IN  IF MapHas(seen.m, todoId) THEN seen
                    ELSE [seen EXCEPT !.m = MapSet(seen.m, todoId,
                                       NewFileTodo(template, branch, filePath, relativePath)),
                                      !.changed = TRUE]

RECURSIVE FileLoop(_, _, _, _, _, _)
FileLoop(acc, ts, branch, filePath, relativePath, content) ==
  IF ts = <<>> THEN acc
  ELSE FileLoop(FileStep(acc, Head(ts), branch, filePath, relativePath, content),
                Tail(ts), branch, filePath, relativePath, content)

\* a createTodosForFile that returned before its loop; read tells whether
\* it had called readFileSync by then
Quiet(tds, read) ==
  [todos |-> tds, saved |-> FALSE, fired |-> 0, read |-> read, checked |-> {}]

\* FileResult that saves and fires whenever the loop over the templates ran
FileResultAlwaysSaves(ts, tds, filePath, branch, rd) ==
  LET relativePath == Relative(filePath)
  IN  IF isBinaryFile(filePath) THEN Quiet(tds, FALSE)
      ELSE IF ~QuickPathCheck(relativePath, ts) THEN Quiet(tds, FALSE)
      ELSE IF rd = None THEN Quiet(tds, TRUE)
      ELSE LET tds1 == WithBranch(tds, branch)
               out == FileLoop([m |-> tds1[branch], changed |-> FALSE, checked |-> {}],
                               ts, branch, filePath, relativePath, rd[1])
           IN  [todos |-> [tds1 EXCEPT ![branch] = out.m],
                saved |-> TRUE, fired |-> 1,
                read |-> TRUE, checked |-> out.checked]

\* the outcome of createTodosForFile(filePath, branch) when reading the file
\* gives rd (None: the read throws): the new map, whether saveState ran,
\* the number of onTodosChanged events, whether readFileSync was called,
\* and the templates whose content conditions were reached
FileResult(ts, tds, filePath, branch, rd) ==
  LET relativePath == Relative(filePath)
  IN  IF isBinaryFile(filePath) THEN Quiet(tds, FALSE)
      ELSE IF ~QuickPathCheck(relativePath, ts) THEN Quiet(tds, FALSE)
      ELSE IF rd = None THEN Quiet(tds, TRUE)
      ELSE LET tds1 == WithBranch(tds, branch)
               out == FileLoop([m |-> tds1[branch], changed |-> FALSE, checked |-> {}],
                               ts, branch, filePath, relativePath, rd[1])
           IN  [todos |-> [tds1 EXCEPT ![branch] = out.m],
                saved |-> out.changed,
                fired |-> IF out.changed THEN 1 ELSE 0,
                read |-> TRUE, checked |-> out.checked]

----------------------------------------------------------------------------
(* createBranchLevelTodos and findTriggeringFiles *)

\* findTriggeringFiles: changedFiles are the absolute paths getChangedFiles
\* returned, reads maps a relative path to what reading the file gives
RECURSIVE findTriggeringFiles(_, _, _)
findTriggeringFiles(template, changedFiles, reads) ==
  IF ~NonEmpty(template.applyTo) \/ changedFiles = <<>> THEN <<>>
  ELSE LET filePath == Head(changedFiles)
           relativePath == Relative(filePath)
           rest == findTriggeringFiles(template, Tail(changedFiles), reads)
           needsContent == NonEmpty(template.fileContains)
                             \/ NonEmpty(template.excludeFileContains)
       IN  IF isBinaryFile(filePath) THEN rest
           ELSE IF ~minimatch(relativePath, template.applyTo) THEN rest
           ELSE IF needsContent /\ reads[relativePath] = None THEN rest
           ELSE IF needsContent /\ ~ContentOk(template, reads[relativePath][1]) THEN rest
           ELSE <<relativePath>> \o rest

\* [...new Set(arr)]: first occurrences, in order
RECURSIVE Dedupe(_)
Dedupe(arr) ==
  IF arr = <<>> THEN <<>>
  ELSE LET front == Dedupe(SubSeq(arr, 1, Len(arr) - 1))
           last == arr[Len(arr)]
       IN  IF ArrIncludes(front, last) THEN front ELSE Append(front, last)

\* BranchStep without the test for an empty list of triggering files: a
\* new instance is created whatever findTriggeringFiles returns
BranchStepAlwaysCreate(acc, template, branch, changedFiles, reads) ==
  IF MapHas(acc.m, BranchTodoId(template.id)) THEN acc
  ELSE [m |-> MapSet(acc.m, BranchTodoId(template.id),
                     NewBranchTodo(template, branch,
                        IF NonEmpty(template.applyTo)
                        THEN Some(findTriggeringFiles(template, changedFiles, reads))
                        ELSE None)),
        changed |-> TRUE]

\* BranchStep without the test for an existing todo: the instance is
\* created anew on every call
BranchStepRecreate(acc, template, branch, changedFiles, reads) ==
  LET triggeringFiles ==
        IF NonEmpty(template.applyTo)
        THEN Some(findTriggeringFiles(template, changedFiles, reads))
        ELSE None
  IN  IF NonEmpty(template.applyTo) /\ Len(triggeringFiles[1]) = 0
      THEN acc
      ELSE [m |-> MapSet(acc.m, BranchTodoId(template.id),
                         NewBranchTodo(template, branch, triggeringFiles)),
            changed |-> TRUE]

\* BranchStep that reopens the todo when it records new triggering files
BranchStepReopens(acc, template, branch, changedFiles, reads) ==
  LET todoId == BranchTodoId(template.id)
  IN  IF MapHas(acc.m, todoId)
      THEN IF NonEmpty(template.applyTo)
           THEN LET newTriggeringFiles == findTriggeringFiles(template, changedFiles, reads)
                    existingTodo == acc.m[todoId]
                    existingFiles == IF existingTodo.triggeringFiles = None THEN <<>>
                                     ELSE existingTodo.triggeringFiles[1]
                    allFiles == Dedupe(existingFiles \o newTriggeringFiles)
                IN  IF Len(newTriggeringFiles) > 0 /\ Len(allFiles) # Len(existingFiles)
                    THEN [m |-> [acc.m EXCEPT ![todoId].triggeringFiles = Some(allFiles),
                                              ![todoId].completed = FALSE,
                                              ![todoId].completedAt = None],
                          changed |-> TRUE]
                    ELSE acc
           ELSE acc
      ELSE LET triggeringFiles ==
                 IF NonEmpty(template.applyTo)
                 THEN Some(findTriggeringFiles(template, changedFiles, reads))
                 ELSE None
           IN  IF NonEmpty(template.applyTo) /\ Len(triggeringFiles[1]) = 0
               THEN acc
               ELSE [m |-> MapSet(acc.m, todoId,
                                  NewBranchTodo(template, branch, triggeringFiles)),
                     changed |-> TRUE]

\* one iteration of the loop over the branch-level templates
BranchStep(acc, template, branch, changedFiles, reads) ==
  LET todoId == BranchTodoId(template.id)
  IN  IF MapHas(acc.m, todoId)
      THEN IF NonEmpty(template.applyTo)
           THEN LET newTriggeringFiles == findTriggeringFiles(template, changedFiles, reads)
                    existingTodo == acc.m[todoId]
                    existingFiles == IF existingTodo.triggeringFiles = None THEN <<>>
                                     ELSE existingTodo.triggeringFiles[1]
                    allFiles == Dedupe(existingFiles \o newTriggeringFiles)
                IN  IF Len(newTriggeringFiles) > 0 /\ Len(allFiles) # Len(existingFiles)
                    THEN [m |-> [acc.m EXCEPT ![todoId].triggeringFiles = Some(allFiles)],
                          changed |-> TRUE]
                    ELSE acc
           ELSE acc
      ELSE LET triggeringFiles ==
                 IF NonEmpty(template.applyTo)
                 THEN Some(findTriggeringFiles(template, changedFiles, reads))
                 ELSE None
           IN  IF NonEmpty(template.applyTo) /\ Len(triggeringFiles[1]) = 0
               THEN acc
               ELSE [m |-> MapSet(acc.m, todoId,
                                  NewBranchTodo(template, branch, triggeringFiles)),
                     changed |-> TRUE]

RECURSIVE BranchLoop(_, _, _, _, _)
BranchLoop(acc, ts, branch, changedFiles, reads) ==
  IF ts = <<>> THEN acc
  ELSE BranchLoop(BranchStep(acc, Head(ts), branch, changedFiles, reads),
                  Tail(ts), branch, changedFiles, reads)

\* the templates createBranchLevelTodos handles: explicitly branch-level,
\* or without applyTo
IsBranchLevelTemplate(t) == t.branchLevel = Some(TRUE) \/ ~NonEmpty(t.applyTo)

\* the outcome of createBranchLevelTodos(branch)
BranchResult(ts, tds, branch, changedFiles, reads) ==
  LET tds1 == WithBranch(tds, branch)
      branchLevelTemplates == SelectSeq(ts, IsBranchLevelTemplate)
      out == BranchLoop([m |-> tds1[branch], changed |-> FALSE],
                        branchLevelTemplates, branch, changedFiles, reads)
  IN  [todos |-> [tds1 EXCEPT ![branch] = out.m],
       saved |-> out.changed,
       fired |-> IF out.changed THEN 1 ELSE 0]

----------------------------------------------------------------------------
(* createBranchLevelTodos, await by await *)

\* the loop of createBranchLevelTodos up to its next await: templates
\* without applyTo are handled at once, a template with applyTo makes the
\* call wait for findTriggeringFiles after it has looked the todo up
RECURSIVE BranchRun(_, _, _)
BranchRun(acc, ts, branch) ==
  IF ts = <<>>
  THEN [m |-> acc.m, changed |-> acc.changed, waiting |-> None, rest |-> <<>>]
  ELSE IF NonEmpty(Head(ts).applyTo)
  THEN [m |-> acc.m, changed |-> acc.changed, waiting |-> Some(Head(ts)),
        rest |-> Tail(ts)]
  ELSE BranchRun(BranchStep(acc, Head(ts), branch, <<>>, <<>>), Tail(ts), branch)

\* the rest of the iteration once findTriggeringFiles has returned: existed
\* is what branchTodos.get(todoId) gave before the await
ResumeStep(acc, template, branch, existed, newTriggeringFiles) ==
  LET todoId == BranchTodoId(template.id)
  IN  IF existed
      THEN LET existingTodo == acc.m[todoId]
               existingFiles == IF existingTodo.triggeringFiles = None THEN <<>>
                                ELSE existingTodo.triggeringFiles[1]
               allFiles == Dedupe(existingFiles \o newTriggeringFiles)
           IN  IF Len(newTriggeringFiles) > 0 /\ Len(allFiles) # Len(existingFiles)
               THEN [m |-> [acc.m EXCEPT ![todoId].triggeringFiles = Some(allFiles)],
                     changed |-> TRUE]
               ELSE acc
      ELSE IF Len(newTriggeringFiles) = 0 THEN acc
           ELSE [m |-> MapSet(acc.m, todoId,
                              NewBranchTodo(template, branch, Some(newTriggeringFiles))),
                 changed |-> TRUE]

\* the call as it waits: its branch, the template of the iteration, the
\* templates still to come, what the lookup gave, todosChanged, and the
\* Map the call holds when clearBranchTodos has taken it out of this.todos
Waiting(branch, run, orphan) ==
  [branch |-> branch, template |-> run.waiting[1], rest |-> run.rest,
   existed |-> MapHas(run.m, BranchTodoId(run.waiting[1].id)),
   changed |-> run.changed, orphan |-> orphan]

----------------------------------------------------------------------------
(* refreshTodos *)

\* how an operation whose work gave r ends when its saveState call, if it
\* makes one, resolves (ok) or throws: a throw leaves the snapshot as it
\* was and skips the rest of the operation, the change event included
Finish(r, ok) ==
  [todos |-> r.todos, saved |-> r.saved,
   fired |-> IF r.saved /\ ~ok THEN 0 ELSE r.fired,
   written |-> r.saved /\ ok]

\* one createTodosForFile call of the loop of refreshTodos
RefreshStep(acc, r, ok) ==
  [todos |-> r.todos,
   saved |-> acc.saved \/ r.saved,
   fired |-> acc.fired + Finish(r, ok).fired,
   written |-> acc.written \/ Finish(r, ok).written,
   savedTodos |-> IF Finish(r, ok).written THEN r.todos ELSE acc.savedTodos,
   aborted |-> r.saved /\ ~ok]

\* RefreshLoop that evaluates the first changed file only
RefreshLoopFirstOnly(acc, ts, branch, changedFiles, reads, ok) ==
  IF changedFiles = <<>> \/ acc.aborted THEN acc
  ELSE RefreshStep(acc, FileResult(ts, acc.todos, Head(changedFiles), branch,
                                   reads[Relative(Head(changedFiles))]), ok)

\* the loop over the changed files: acc holds the map, whether saveState
\* was called, the change events fired, whether a write went through, the
\* map as the last write found it, and whether a throw has ended the call
RECURSIVE RefreshLoop(_, _, _, _, _, _)
RefreshLoop(acc, ts, branch, changedFiles, reads, ok) ==
  IF changedFiles = <<>> \/ acc.aborted THEN acc
  ELSE LET filePath == Head(changedFiles)
           r == FileResult(ts, acc.todos, filePath, branch, reads[Relative(filePath)])
       IN  RefreshLoop(RefreshStep(acc, r, ok), ts, branch, Tail(changedFiles), reads, ok)

\* the outcome of refreshTodos(branch) in a workspace that stays as it is
\* during the call: createBranchLevelTodos, then createTodosForFile for
\* every file getChangedFiles returns, then one more change event
refreshTodos(ts, tds, branch, changedFiles, reads, ok) ==
  LET first == BranchResult(ts, tds, branch, changedFiles, reads)
      start == RefreshStep([saved |-> FALSE, fired |-> 0, written |-> FALSE,
                            savedTodos |-> tds], first, ok)
      out == RefreshLoop(start, ts, branch, changedFiles, reads, ok)
  IN  IF out.aborted THEN out ELSE [out EXCEPT !.fired = @ + 1]

----------------------------------------------------------------------------
(* Status verbs *)

\* Completed that sets the flag and no timestamp
CompletedNoTimestamp(todo, now) == [todo EXCEPT !.completed = TRUE]

\* the lookup every status verb starts with: the branch map, then the todo
Known(tds, todoId, branch) == MapHas(tds, branch) /\ MapHas(tds[branch], todoId)

Completed(todo, now) == [todo EXCEPT !.completed = TRUE, !.completedAt = Some(now)]

\* Reopened that leaves the timestamp of the completion in place
ReopenedKeepsTimestamp(todo) == [todo EXCEPT !.completed = FALSE]

Reopened(todo) == [todo EXCEPT !.completed = FALSE, !.completedAt = None]

Ignored(todo, now) == [todo EXCEPT !.ignored = TRUE, !.ignoredAt = Some(now)]

Unignored(todo) == [todo EXCEPT !.ignored = FALSE, !.ignoredAt = None]

\* StatusResult looking the todo up by id alone: every branch that holds
\* the id gets the change
StatusResultAnyBranch(tds, todoId, branch, changedTodo) ==
  IF Known(tds, todoId, branch)
  THEN [todos |-> [b \in DOMAIN tds |->
                     IF MapHas(tds[b], todoId)
                     THEN [tds[b] EXCEPT ![todoId] = changedTodo]
                     ELSE tds[b]],
        saved |-> TRUE, fired |-> 1]
  ELSE [todos |-> tds, saved |-> FALSE, fired |-> 0]

\* StatusResult that creates the branch's collection when it finds none
StatusResultCreatesBranch(tds, todoId, branch, changedTodo) ==
  IF Known(tds, todoId, branch)
  THEN [todos |-> [tds EXCEPT ![branch][todoId] = changedTodo],
        saved |-> TRUE, fired |-> 1]
  ELSE [todos |-> WithBranch(tds, branch), saved |-> FALSE, fired |-> 0]

\* the common shape of the four status verbs: return when the branch or
\* the todo is unknown, else change the todo, save and notify
StatusResult(tds, todoId, branch, changedTodo) ==
  IF Known(tds, todoId, branch)
  THEN [todos |-> [tds EXCEPT ![branch][todoId] = changedTodo],
        saved |-> TRUE, fired |-> 1]
  ELSE [todos |-> tds, saved |-> FALSE, fired |-> 0]

\* the outcomes of completeTodo, reopenTodo, ignoreTodo, unignoreTodo;
\* now is what new Date().toISOString() gives
completeTodo(tds, todoId, branch, now) ==
  StatusResult(tds, todoId, branch, Completed(tds[branch][todoId], now))

reopenTodo(tds, todoId, branch) ==
  StatusResult(tds, todoId, branch, Reopened(tds[branch][todoId]))

ignoreTodo(tds, todoId, branch, now) ==
  StatusResult(tds, todoId, branch, Ignored(tds[branch][todoId], now))

unignoreTodo(tds, todoId, branch) ==
  StatusResult(tds, todoId, branch, Unignored(tds[branch][todoId]))

\* the outcome of clearBranchTodos
\* clearBranchTodos that empties the branch's collection and keeps its key
clearBranchTodosKeepsKey(tds, branch) ==
  [todos |-> [b \in DOMAIN tds |-> IF b = branch THEN EmptyMap ELSE tds[b]],
   saved |-> TRUE, fired |-> 1]

clearBranchTodos(tds, branch) ==
  [todos |-> MapDelete(tds, branch), saved |-> TRUE, fired |-> 1]

\* getTodos(branch): the instances of the branch, none when it has no entry
getTodos(tds, branch) ==
  IF ~MapHas(tds, branch) THEN {}
  ELSE {tds[branch][id] : id \in DOMAIN tds[branch]}

\* getAllBranchTodos(): the instances of every branch the store has a key for
getAllBranchTodos(tds) == [b \in DOMAIN tds |-> getTodos(tds, b)]

----------------------------------------------------------------------------
(* The state machine *)

Op(op, saved, fired) == [op |-> op, saved |-> saved, fired |-> fired]

\* loadTemplates: the template array of a usable document, [] otherwise
LoadedTemplates(cfg) == IF cfg.kind = "ok" THEN cfg.templates ELSE <<>>

unknownId == <<"n","o","n","e">>

\* the ids callers pass to the status verbs: ids in use on some branch, and
\* one id that no todo has
CallerIds == UNION {DOMAIN todos[b] : b \in DOMAIN todos} \cup {unknownId}

\* .todo.json, relative to the workspace root
todoJson == <<".","t","o","d","o",".","j","s","o","n">>

\* String.prototype.endsWith
EndsWith(str, suffix) ==
  /\ Len(str) >= Len(suffix)
  /\ SubSeq(str, Len(str) - Len(suffix) + 1, Len(str)) = suffix

\* the paths change events arrive for
Watched == world.files \cup {todoJson}

\* a commit hash
sha == <<"a","b","c","1","2","3","4","5","6">>

\* repository.state.HEAD: on a branch, detached at a commit, without name
\* and commit, or undefined (None)
headMain == Some([name |-> Some("main"), commit |-> Some(sha)])

headFeature == Some([name |-> Some("feature/x"), commit |-> Some(sha)])

headDetached == Some([name |-> None, commit |-> Some(sha)])

headUnborn == Some([name |-> None, commit |-> None])

Heads == {None, headMain, headFeature, headDetached, headUnborn}

\* the characters of a string, joined
RECURSIVE Join(_)
Join(cs) == IF cs = <<>> THEN "" ELSE Head(cs) \o Join(Tail(cs))

\* str.substring(0, n)
Substring0(cs, n) == SubSeq(cs, 1, IF Len(cs) < n THEN Len(cs) ELSE n)

\* getCurrentBranch that gives "default" for every HEAD without a name
getCurrentBranchNoDetached(repository, head) ==
  IF ~repository \/ head = None THEN "default"
  ELSE IF head[1].name = None THEN "default" ELSE head[1].name[1]

\* GitService.getCurrentBranch
getCurrentBranch(repository, head) ==
  IF ~repository \/ head = None THEN "default"
  ELSE IF head[1].name = None /\ NonEmpty(head[1].commit)
       THEN "detached-" \o Join(Substring0(head[1].commit[1], 7))
       ELSE IF head[1].name = None THEN "default" ELSE head[1].name[1]

\* GitService after its initialize(): with a repository setupListeners has
\* run and lastBranch is the current branch. observed is the branch name
\* seen at the last status run (or at setup), fired the last onBranchChange
\* event, parity flips with every event
StartGit(repository, head) ==
  [repository |-> repository, head |-> IF repository THEN head ELSE None,
   listening |-> repository,
   lastBranch |-> getCurrentBranch(repository, head),
   observed |-> getCurrentBranch(repository, head),
   fired |-> None, parity |-> FALSE]

\* AfterStatus that fires the event and leaves lastBranch as it was
AfterStatusKeepsLast(g, currentBranch) ==
  IF currentBranch # g.lastBranch
  THEN [g EXCEPT !.fired = Some(currentBranch), !.parity = ~g.parity,
                 !.observed = currentBranch]
  ELSE [g EXCEPT !.observed = currentBranch]

\* the onDidRunGitStatus listener of setupListeners
AfterStatus(g, currentBranch) ==
  IF currentBranch # g.lastBranch
  THEN [g EXCEPT !.lastBranch = currentBranch, !.fired = Some(currentBranch),
                 !.parity = ~g.parity, !.observed = currentBranch]
  ELSE [g EXCEPT !.observed = currentBranch]

\* the git-state listener and dispose(): whether gitStateTimer is pending,
\* whether dispose() has run, the files the last refresh it started
\* evaluated, and whether that refresh started after dispose()
NoRefresh == [timer |-> FALSE, disposed |-> FALSE, evaluated |-> {}, late |-> FALSE]

\* isFileChanged that reports every file as changed
isFileChangedAlways(repository, changedFiles, filePath) == TRUE

\* GitService.isFileChanged: every file counts as changed without a
\* repository
isFileChanged(repository, changedFiles, filePath) ==
  IF ~repository THEN TRUE ELSE ArrIncludes(changedFiles, filePath)


\* FileWatcher's view of a path for which no event has arrived:
\*   timers    the timers set for the path that have neither expired nor
\*             been cleared
\*   held      debounceTimers has the path
\*   burst     the change events for the path since a timer of it expired
\*   evals     the createTodosForFile calls for the path since its last event
\*   expired   what isFileChanged said when a timer of the path expired
\*             after its last event, "none" when none has
\*   collapsed the change events that timer stood for
Idle ==
  [timers |-> 0, held |-> FALSE, burst |-> 0, evals |-> 0,
   expired |-> "none", collapsed |-> 0]

\* AfterEvent without the clearTimeout of the pending timer
AfterEventNoCancel(entry) ==
  [timers |-> entry.timers + 1, held |-> TRUE, burst |-> entry.burst + 1,
   evals |-> 0, expired |-> "none", collapsed |-> 0]

\* handleFileChange for a path other than .todo.json: the timer that
\* debounceTimers holds for the path is cleared, a new one is set and kept
AfterEvent(entry) ==
  [timers |-> (IF entry.held THEN entry.timers - 1 ELSE entry.timers) + 1,
   held |-> TRUE, burst |-> entry.burst + 1,
   evals |-> 0, expired |-> "none", collapsed |-> 0]

\* the timer callback: processFileChange(filePath), which evaluates the
\* file when git reports it as changed, then debounceTimers.delete(filePath)
AfterExpiry(entry, isChanged) ==
  [timers |-> entry.timers - 1, held |-> FALSE, burst |-> 0,
   evals |-> IF isChanged THEN entry.evals + 1 ELSE entry.evals,
   expired |-> IF isChanged THEN "changed" ELSE "unchanged",
   collapsed |-> entry.burst]

\* the state after construction: new TodoManager(context, gitService, root)
\* on a workspace whose workspaceState holds no 'todoState'
Init ==
  /\ world \in Worlds
  /\ templates = <<>>
  /\ todos = EmptyMap
  /\ stored = EmptyMap
  /\ pc = "loadTemplates"
  /\ lastOp = Op("new", FALSE, 0)
  /\ awaiting = None
  /\ watcher = [f \in Watched |-> Idle]
  /\ listener = NoRefresh
  /\ git = StartGit(world.repository, headMain)

\* initialize(), first step: await this.loadTemplates()
InitLoadTemplates ==
  /\ pc = "loadTemplates"
  /\ \E cfg \in world.configs : templates' = LoadedTemplates(cfg)
  /\ pc' = "loadState"
  /\ lastOp' = Op("loadTemplates", FALSE, 0)
  /\ UNCHANGED <<git, listener, watcher, awaiting, world, todos, stored>>

\* initialize(), second step: await this.loadState()
InitLoadState ==
  /\ pc = "loadState"
  /\ todos' = LoadedTodos(todos, stored, templates)
  /\ pc' = "branchLevel"
  /\ lastOp' = Op("loadState", FALSE, 0)
  /\ UNCHANGED <<git, listener, watcher, awaiting, world, templates, stored>>

\* an operation ends: its new map, the snapshot when its saveState call
\* went through, and the record of the operation
Apply(op, r) ==
  \E ok \in world.writes : \E out \in {Finish(r, ok)} :
    /\ todos' = out.todos
    /\ stored' = IF out.written THEN Snapshot(out.todos) ELSE stored
    /\ lastOp' = Op(op, out.saved, out.fired)

\* what createBranchLevelTodos(branch) can give, by what git reports as
\* changed and what reading the files returns
BranchResults(tds, branch) ==
  {BranchResult(templates, tds, branch,
                [i \in 1..Len(changed) |-> AbsPath(changed[i])], reads) :
     changed \in world.changed, reads \in world.reads}

\* initialize(), third step: await this.createBranchLevelTodos(); when
\* its saveState call throws, so do initialize() and activate(), and the
\* extension offers no operation ("failed")
InitBranchLevel ==
  /\ pc = "branchLevel"
  /\ \E branch \in world.branches :
       \E r \in BranchResults(todos, branch) :
         /\ Apply("initialize", r)
         /\ pc' = IF lastOp'.saved /\ lastOp'.fired = 0 THEN "failed" ELSE "ready"
  /\ UNCHANGED <<git, listener, watcher, awaiting, world, templates>>

CreateBranchLevelTodos(branch) ==
  /\ pc = "ready"
  /\ \E r \in BranchResults(todos, branch) : Apply("createBranchLevelTodos", r)
  /\ UNCHANGED <<git, listener, watcher, awaiting, world, templates, pc>>

\* createBranchLevelTodos(branch) runs to its first await
BeginBranchLevelTodos(branch) ==
  /\ pc = "ready"
  /\ world.overlap
  /\ awaiting = None
  /\ \E run \in {BranchRun([m |-> WithBranch(todos, branch)[branch], changed |-> FALSE],
                            SelectSeq(templates, IsBranchLevelTemplate), branch)} :
       /\ run.waiting # None
       /\ todos' = [WithBranch(todos, branch) EXCEPT ![branch] = run.m]
       /\ awaiting' = Some(Waiting(branch, run, None))
  /\ lastOp' = Op("createBranchLevelTodos/await", FALSE, 0)
  /\ UNCHANGED <<git, listener, watcher, world, templates, stored, pc>>

\* findTriggeringFiles returns to the waiting call, which goes on to its
\* next await or to its end
ResumeBranchLevelTodos ==
  /\ pc = "ready"
  /\ awaiting # None
  /\ \E changed \in world.changed, reads \in world.reads :
       LET call == awaiting[1]
           own == IF call.orphan = None THEN todos[call.branch] ELSE call.orphan[1]
           found == findTriggeringFiles(call.template,
                       [i \in 1..Len(changed) |-> AbsPath(changed[i])], reads)
           run == BranchRun(ResumeStep([m |-> own, changed |-> call.changed],
                                       call.template, call.branch, call.existed, found),
                            call.rest, call.branch)
           tds == IF call.orphan = None THEN [todos EXCEPT ![call.branch] = run.m]
                  ELSE todos
       IN  IF run.waiting # None
           THEN /\ todos' = tds
                /\ awaiting' = Some(Waiting(call.branch, run,
                                   IF call.orphan = None THEN None ELSE Some(run.m)))
                /\ lastOp' = Op("createBranchLevelTodos/await", FALSE, 0)
                /\ stored' = stored
           ELSE /\ Apply("createBranchLevelTodos",
                         [todos |-> tds, saved |-> run.changed,
                          fired |-> IF run.changed THEN 1 ELSE 0])
                /\ awaiting' = None
  /\ UNCHANGED <<git, listener, watcher, world, templates, pc>>

\* what reading the file can return
ReadsOf(file) == {reads[file] : reads \in world.reads}

\* what createTodosForFile(file, branch) can give, by what reading the file
\* returns
FileResults(tds, file, branch) ==
  {FileResult(templates, tds, AbsPath(file), branch, rd) : rd \in ReadsOf(file)}

CreateTodosForFile(file, branch) ==
  /\ pc = "ready"
  /\ \E r \in FileResults(todos, file, branch) : Apply("createTodosForFile", r)
  /\ UNCHANGED <<git, listener, watcher, awaiting, world, templates, pc>>

CompleteTodo(todoId, branch) ==
  /\ pc = "ready"
  /\ \E now \in Times :
       \E r \in {completeTodo(todos, todoId, branch, now)} : Apply("completeTodo", r)
  /\ UNCHANGED <<git, listener, watcher, awaiting, world, templates, pc>>

ReopenTodo(todoId, branch) ==
  /\ pc = "ready"
  /\ \E r \in {reopenTodo(todos, todoId, branch)} : Apply("reopenTodo", r)
  /\ UNCHANGED <<git, listener, watcher, awaiting, world, templates, pc>>

IgnoreTodo(todoId, branch) ==
  /\ pc = "ready"
  /\ \E now \in Times :
       \E r \in {ignoreTodo(todos, todoId, branch, now)} : Apply("ignoreTodo", r)
  /\ UNCHANGED <<git, listener, watcher, awaiting, world, templates, pc>>

UnignoreTodo(todoId, branch) ==
  /\ pc = "ready"
  /\ \E r \in {unignoreTodo(todos, todoId, branch)} : Apply("unignoreTodo", r)
  /\ UNCHANGED <<git, listener, watcher, awaiting, world, templates, pc>>

ClearBranchTodos(branch) ==
  /\ pc = "ready"
  /\ \E r \in {clearBranchTodos(todos, branch)} : Apply("clearBranchTodos", r)
  /\ awaiting' = IF awaiting # None /\ awaiting[1].branch = branch
                    /\ awaiting[1].orphan = None
                 THEN Some([awaiting[1] EXCEPT !.orphan = Some(todos[branch])])
                 ELSE awaiting
  /\ UNCHANGED <<git, listener, watcher, world, templates, pc>>

\* what refreshTodos(branch) can give, by what git reports as changed and
\* what reading the files returns
RefreshResults(tds, branch) ==
  {refreshTodos(templates, tds, branch,
                [i \in 1..Len(changed) |-> AbsPath(changed[i])], reads, ok) :
     changed \in world.changed, reads \in world.reads, ok \in world.writes}

RefreshTodos(branch) ==
  /\ pc = "ready"
  /\ \E r \in RefreshResults(todos, branch) :
       /\ todos' = r.todos
       /\ stored' = IF r.written THEN Snapshot(r.savedTodos) ELSE stored
       /\ lastOp' = Op("refreshTodos", r.saved, r.fired)
  /\ UNCHANGED <<git, listener, watcher, awaiting, world, templates, pc>>

\* FileWatcher.handleConfigChange: .todo.json changed, loadTemplates()
LoadTemplates ==
  /\ pc = "ready"
  /\ \E cfg \in world.configs : templates' = LoadedTemplates(cfg)
  /\ lastOp' = Op("loadTemplates", FALSE, 0)
  /\ UNCHANGED <<git, listener, watcher, awaiting, world, todos, stored, pc>>

\* the extension host ends and activate() constructs a new TodoManager;
\* only workspaceState survives
Restart ==
  /\ pc \in {"ready", "failed"}
  /\ templates' = <<>>
  /\ todos' = EmptyMap
  /\ pc' = "loadTemplates"
  /\ lastOp' = Op("new", FALSE, 0)
  /\ awaiting' = None
  /\ UNCHANGED <<git, listener, watcher, world, stored>>

Next ==
  \/ InitLoadTemplates
  \/ InitLoadState
  \/ InitBranchLevel
  \/ \E f \in world.files, b \in world.branches : CreateTodosForFile(f, b)
  \/ \E b \in world.branches : CreateBranchLevelTodos(b)
  \/ \E id \in CallerIds, b \in world.branches : CompleteTodo(id, b)
  \/ \E id \in CallerIds, b \in world.branches : ReopenTodo(id, b)
  \/ \E id \in CallerIds, b \in world.branches : IgnoreTodo(id, b)
  \/ \E id \in CallerIds, b \in world.branches : UnignoreTodo(id, b)
  \/ \E b \in world.branches : ClearBranchTodos(b)
  \/ \E b \in world.branches : RefreshTodos(b)
  \/ \E b \in world.branches : BeginBranchLevelTodos(b)
  \/ ResumeBranchLevelTodos
  \/ LoadTemplates
  \/ Restart

Spec == Init /\ [][Next]_vars

----------------------------------------------------------------------------
(* A workspace whose template ids and paths give one todo id twice *)

\* a file at the workspace root
fileDep == <<"d","e","p">>

\* a file-scoped template whose id is "branch", on every root file
tplBranchId ==
  [id |-> <<"b","r","a","n","c","h">>, name |-> "Branch note", description |-> "d9",
   applyTo |-> <<"*">>, fileContains |-> <<>>, excludeFileContains |-> <<>>,
   priority |-> None, branchLevel |-> None, aiInstruction |-> None]

\* the file-scoped template "branch" on the file dep, and the branch-level
\* template "dep"
WorldClash ==
  [branches |-> {"main"},
   files    |-> {fileDep},
   reads    |-> {[f \in {fileDep} |-> Some(plain)]},
   configs  |-> {ConfigOk(<<tplBranchId, tplPure>>), ConfigOk(<<tplBranchId>>)},
   changed  |-> {<<fileDep>>},
   writes   |-> {TRUE},
   overlap  |-> FALSE,
   repository |-> TRUE]

InitClash ==
  /\ world = WorldClash
  /\ templates = <<>>
  /\ todos = EmptyMap
  /\ stored = EmptyMap
  /\ pc = "loadTemplates"
  /\ lastOp = Op("new", FALSE, 0)
  /\ awaiting = None
  /\ watcher = [f \in Watched |-> Idle]
  /\ listener = NoRefresh
  /\ git = StartGit(world.repository, headMain)

NextClash ==
  \/ InitLoadTemplates
  \/ InitLoadState
  \/ InitBranchLevel
  \/ \E f \in world.files, b \in world.branches : CreateTodosForFile(f, b)
  \/ \E b \in world.branches : CreateBranchLevelTodos(b)
  \/ \E id \in CallerIds, b \in world.branches : CompleteTodo(id, b)
  \/ \E id \in CallerIds, b \in world.branches : IgnoreTodo(id, b)
  \/ \E b \in world.branches : ClearBranchTodos(b)
  \/ LoadTemplates
  \/ Restart

SpecClash == InitClash /\ [][NextClash]_vars

----------------------------------------------------------------------------
(* FileWatcher: change events and debounce timers *)

\* a workspace with two watched files and one file-scoped template; git
\* reports both files as changed, or none
WorldWatch ==
  [branches |-> {"main"},
   files    |-> {fileA, fileDoc},
   reads    |-> {[f \in {fileA, fileDoc, todoJson} |-> Some(withMarker)]},
   configs  |-> {ConfigOk(<<tplFile>>)},
   changed  |-> {<<>>, <<fileA, fileDoc>>, <<fileA, todoJson>>},
   writes   |-> {TRUE},
   overlap  |-> FALSE,
   repository |-> TRUE]

\* a workspace without a git repository: no changed files are reported,
\* and the branch is the fallback "default"
WorldNoGit ==
  [branches |-> {"default"},
   files    |-> {fileA, fileDoc},
   reads    |-> {[f \in {fileA, fileDoc, todoJson} |-> Some(withMarker)]},
   configs  |-> {ConfigOk(<<tplFile>>)},
   changed  |-> {<<>>},
   writes   |-> {TRUE},
   overlap  |-> FALSE,
   repository |-> FALSE]

InitWatch ==
  /\ world \in {WorldWatch, WorldNoGit}
  /\ templates = <<>>
  /\ todos = EmptyMap
  /\ stored = EmptyMap
  /\ pc = "loadTemplates"
  /\ lastOp = Op("new", FALSE, 0)
  /\ awaiting = None
  /\ watcher = [f \in Watched |-> Idle]
  /\ listener = NoRefresh
  /\ git = StartGit(world.repository, headMain)

\* a create, change or save event for the file reaches handleFileChange
HandleFileChange(file) ==
  /\ pc = "ready"
  /\ ~listener.disposed
  /\ watcher[file].burst < MaxBurst
  /\ watcher' = IF EndsWith(AbsPath(file), todoJson) THEN watcher
                ELSE [watcher EXCEPT ![file] = AfterEvent(@)]
  /\ lastOp' = Op("handleFileChange", FALSE, 0)
  /\ UNCHANGED <<git, listener, awaiting, world, templates, todos, stored, pc>>

\* what processFileChange(file) can give when git reports changed:
\* nothing unless isFileChanged, else what createTodosForFile gives
ProcessResults(tds, file, branch, changed) ==
  IF ~isFileChanged(world.repository, changed, file) THEN {Quiet(tds, FALSE)}
  ELSE FileResults(tds, file, branch)

\* a timer of the file expires: processFileChange, then the delete
TimerExpires(file) ==
  /\ pc = "ready"
  /\ watcher[file].timers > 0
  /\ \E changed \in world.changed :
       /\ watcher' = [watcher EXCEPT ![file] =
                        AfterExpiry(@, isFileChanged(world.repository, changed, file))]
       /\ IF isFileChanged(world.repository, changed, file)
          THEN \E branch \in world.branches :
                 \E r \in ProcessResults(todos, file, branch, changed) :
                   Apply("createTodosForFile", r)
          ELSE /\ lastOp' = Op("processFileChange", FALSE, 0)
               /\ UNCHANGED <<todos, stored>>
  /\ UNCHANGED <<git, listener, awaiting, world, templates, pc>>

\* repo.state.onDidChange reaches the git-state listener: the pending
\* gitStateTimer is cleared and a new one is set
GitStateChanges ==
  /\ pc = "ready"
  /\ world.repository
  /\ ~listener.disposed
  /\ listener' = [listener EXCEPT !.timer = TRUE]
  /\ lastOp' = Op("onDidChange", FALSE, 0)
  /\ UNCHANGED <<git, watcher, awaiting, world, templates, todos, stored, pc>>

\* gitStateTimer expires: await this.todoManager.refreshTodos()
GitTimerExpires ==
  /\ pc = "ready"
  /\ listener.timer
  /\ \E branch \in world.branches, changed \in world.changed, reads \in world.reads,
        ok \in world.writes :
       \E r \in {refreshTodos(templates, todos, branch,
                               [i \in 1..Len(changed) |-> AbsPath(changed[i])], reads, ok)} :
         /\ todos' = r.todos
         /\ stored' = IF r.written THEN Snapshot(r.savedTodos) ELSE stored
         /\ lastOp' = Op("refreshTodos", r.saved, r.fired)
         /\ listener' = [listener EXCEPT !.timer = FALSE,
                                         !.evaluated = {changed[i] : i \in 1..Len(changed)},
                                         !.late = listener.disposed]
  /\ UNCHANGED <<git, watcher, awaiting, world, templates, pc>>

NextWatch ==
  \/ InitLoadTemplates
  \/ InitLoadState
  \/ InitBranchLevel
  \/ \E f \in Watched : HandleFileChange(f)
  \/ \E f \in Watched : TimerExpires(f)
  \/ GitStateChanges
  \/ GitTimerExpires

SpecWatch == InitWatch /\ [][NextWatch]_vars

\* FileWatcher.dispose(): the timers debounceTimers holds are cleared and
\* the watchers and the git-state listener are disposed; gitStateTimer, a
\* variable of setupGitStateListener, is not among them
AfterDispose(entry) == [entry EXCEPT !.timers = 0, !.held = FALSE, !.burst = 0]

Dispose ==
  /\ pc = "ready"
  /\ ~listener.disposed
  /\ watcher' = [f \in Watched |-> AfterDispose(watcher[f])]
  /\ listener' = [listener EXCEPT !.disposed = TRUE]
  /\ lastOp' = Op("dispose", FALSE, 0)
  /\ UNCHANGED <<git, awaiting, world, templates, todos, stored, pc>>

NextDispose ==
  \/ NextWatch
  \/ Dispose

SpecDispose == InitWatch /\ [][NextDispose]_vars

----------------------------------------------------------------------------
(* GitService: HEAD, git status runs and branch-change events *)

\* a workspace whose HEAD moves between two branches, a detached commit
\* and no HEAD at all; the git extension may find the repository late
WorldGit ==
  [branches |-> {"main", "feature/x", "default", "detached-abc1234"},
   files    |-> {fileA},
   reads    |-> {[f \in {fileA} |-> Some(withMarker)]},
   configs  |-> {ConfigOk(<<tplFile>>)},
   changed  |-> {<<fileA>>},
   writes   |-> {TRUE},
   overlap  |-> FALSE,
   repository |-> TRUE]

InitGit ==
  /\ world = WorldGit
  /\ templates = <<>>
  /\ todos = EmptyMap
  /\ stored = EmptyMap
  /\ pc = "loadTemplates"
  /\ lastOp = Op("new", FALSE, 0)
  /\ awaiting = None
  /\ watcher = [f \in Watched |-> Idle]
  /\ listener = NoRefresh
  /\ \E repository \in BOOLEAN, head \in Heads : git = StartGit(repository, head)

\* the current branch as the operations called without a branch see it
CurrentBranch == getCurrentBranch(git.repository, git.head)

\* gitAPI.onDidOpenRepository: the first repository is taken and
\* setupListeners runs
OpenRepository ==
  /\ ~git.repository
  /\ \E head \in Heads : git' = StartGit(TRUE, head)
  /\ lastOp' = Op("onDidOpenRepository", FALSE, 0)
  /\ UNCHANGED <<listener, watcher, awaiting, world, templates, todos, stored, pc>>

\* the user checks out another branch or commit
Checkout ==
  /\ git.repository
  /\ \E head \in Heads \ {git.head} : git' = [git EXCEPT !.head = head]
  /\ lastOp' = Op("checkout", FALSE, 0)
  /\ UNCHANGED <<listener, watcher, awaiting, world, templates, todos, stored, pc>>

\* repository.onDidRunGitStatus: the listener compares the current branch
\* with lastBranch and fires onBranchChange, whose handler in activate()
\* awaits todoManager.switchBranch(newBranch): one change event
RunGitStatus ==
  /\ pc = "ready"
  /\ git.listening
  /\ git' = AfterStatus(git, CurrentBranch)
  /\ lastOp' = IF git'.parity # git.parity THEN Op("switchBranch", FALSE, 1)
                ELSE Op("onDidRunGitStatus", FALSE, 0)
  /\ UNCHANGED <<listener, watcher, awaiting, world, templates, todos, stored, pc>>

\* createTodosForFile(file) without a branch: branch || getCurrentBranch()
EvaluateCurrent(file) ==
  /\ pc = "ready"
  /\ \E r \in FileResults(todos, file, CurrentBranch) : Apply("createTodosForFile", r)
  /\ UNCHANGED <<git, listener, watcher, awaiting, world, templates, pc>>

\* completeTodo(todoId) without a branch
CompleteCurrent(todoId) ==
  /\ CompleteTodo(todoId, CurrentBranch)

\* ignoreTodo(todoId) without a branch
IgnoreCurrent(todoId) ==
  /\ IgnoreTodo(todoId, CurrentBranch)

\* the values the priority input of the language-model tools takes; None is
\* an input without the field
ToolPriorities == {None, Some("all"), Some("high"), Some("medium"), Some("low")}

\* GetRemainingTasksTool.invoke: the ids of the tasks it returns
GetRemainingTasksToolInvoke(tds, branch, input) ==
  LET priority == IF input = None THEN "all" ELSE input[1]
      remaining == {t \in getTodos(tds, branch) : ~t.completed /\ ~t.ignored}
      filtered == IF priority # "all"
                  THEN {t \in remaining : t.priority = priority}
                  ELSE remaining
  IN {t.id : t \in filtered}

\* CompleteTodoTool.invoke without the return for a completed todo
CompleteTodoToolNoReturn(tds, todoId, branch, now) ==
  IF ~Known(tds, todoId, branch)
  THEN [error |-> TRUE, called |-> FALSE, todos |-> tds, saved |-> FALSE, fired |-> 0]
  ELSE LET r == completeTodo(tds, todoId, branch, now)
       IN [error |-> FALSE, called |-> TRUE,
           todos |-> r.todos, saved |-> r.saved, fired |-> r.fired]

\* CompleteTodoTool.invoke: getTodoById on the current branch, a throw for
\* an unknown id, a return for a completed todo, completeTodo otherwise
CompleteTodoToolInvoke(tds, todoId, branch, now) ==
  IF ~Known(tds, todoId, branch)
  THEN [error |-> TRUE, called |-> FALSE, todos |-> tds, saved |-> FALSE, fired |-> 0]
  ELSE IF tds[branch][todoId].completed
  THEN [error |-> FALSE, called |-> FALSE, todos |-> tds, saved |-> FALSE, fired |-> 0]
  ELSE LET r == completeTodo(tds, todoId, branch, now)
       IN [error |-> FALSE, called |-> TRUE,
           todos |-> r.todos, saved |-> r.saved, fired |-> r.fired]

\* the name an invocation of the tool leaves in lastOp
ToolOp(r) ==
  IF r.error THEN "CompleteTodoTool.invoke/throw"
  ELSE IF r.called THEN "CompleteTodoTool.invoke/completeTodo"
  ELSE "CompleteTodoTool.invoke/return"

\* a language model invokes complete_todo
CompleteTodoTool(todoId) ==
  /\ pc = "ready"
  /\ \E now \in Times :
       \E r \in {CompleteTodoToolInvoke(todos, todoId, CurrentBranch, now)} :
         Apply(ToolOp(r), r)
  /\ UNCHANGED <<git, listener, watcher, awaiting, world, templates, pc>>

NextGit ==
  \/ InitLoadTemplates
  \/ InitLoadState
  \/ InitBranchLevel
  \/ OpenRepository
  \/ Checkout
  \/ RunGitStatus
  \/ \E f \in world.files : EvaluateCurrent(f)
  \/ \E id \in CallerIds : CompleteCurrent(id)

SpecGit == InitGit /\ [][NextGit]_vars

\* a workspace on one of two branches, with a file-scoped template of
\* priority high over two files and a branch-level one of priority low
WorldTool ==
  [branches |-> {"main", "feature/x"},
   files    |-> {fileA, fileB},
   reads    |-> {[f \in {fileA, fileB} |-> Some(withMarker)]},
   configs  |-> {ConfigOk(<<tplFile, tplPure>>)},
   changed  |-> {<<fileA>>},
   writes   |-> {TRUE},
   overlap  |-> FALSE,
   repository |-> TRUE]

InitTool ==
  /\ world = WorldTool
  /\ templates = <<>>
  /\ todos = EmptyMap
  /\ stored = EmptyMap
  /\ pc = "loadTemplates"
  /\ lastOp = Op("new", FALSE, 0)
  /\ awaiting = None
  /\ watcher = [f \in Watched |-> Idle]
  /\ listener = NoRefresh
  /\ \E head \in {headMain, headFeature} : git = StartGit(TRUE, head)

\* FilterMode of the tree view
FilterModes == {"all", "remaining", "completed", "ignored"}

\* the three groups getPriorityGroups builds, with the text their label
\* carries between the icon and the counts
PriorityGroups ==
  {[priority |-> "high", label |-> <<"H","i","g","h"," ","P","r","i","o","r","i","t","y">>],
   [priority |-> "medium", label |-> <<"M","e","d","i","u","m"," ","P","r","i","o","r","i","t","y">>],
   [priority |-> "low", label |-> <<"L","o","w"," ","P","r","i","o","r","i","t","y">>]}

\* the label of a group header: icon, label and the counts in parentheses
\* (the digits are left out)
GroupLabel(group, filterMode) ==
  <<"*", " ">> \o group.label \o
    (IF filterMode = "all" THEN <<" ", "(", "/", ")">> ELSE <<" ", "(", ")">>)

\* TodoProvider.getPriorityGroups: the labels of the group headers it
\* returns for the todos of the current branch
getPriorityGroups(branchTodos, filterMode) ==
  {GroupLabel(group, filterMode) :
     group \in {g \in PriorityGroups :
       LET groupTodos == {t \in branchTodos : t.priority = g.priority}
           remaining == {t \in groupTodos : ~t.completed /\ ~t.ignored}
           completed == {t \in groupTodos : t.completed}
           ignored == {t \in groupTodos : t.ignored}
           displayCount ==
             IF filterMode = "all" THEN Cardinality(groupTodos)
             ELSE IF filterMode = "remaining" THEN Cardinality(remaining)
             ELSE IF filterMode = "completed" THEN Cardinality(completed)
             ELSE IF filterMode = "ignored" THEN Cardinality(ignored)
             ELSE 0
       IN displayCount > 0}}

\* TodoProvider.getTodosForGroup: the ids it lists under a header, as the
\* segments it concatenates
getTodosForGroup(branchTodos, groupLabel, filterMode) ==
  LET priority == IF Includes(groupLabel, <<"H","i","g","h">>) THEN "high"
                  ELSE IF Includes(groupLabel, <<"M","e","d","i","u","m">>) THEN "medium"
                  ELSE "low"
      allTodos == {t \in branchTodos : t.priority = priority}
      active == {t.id : t \in {u \in allTodos : ~u.completed /\ ~u.ignored}}
      completed == {t.id : t \in {u \in allTodos : u.completed /\ ~u.ignored}}
      ignored == {t.id : t \in {u \in allTodos : u.ignored}}
  IN IF filterMode = "all" THEN <<active, completed, ignored>>
     ELSE IF filterMode = "remaining" THEN <<active>>
     ELSE IF filterMode = "completed" THEN <<completed>>
     ELSE IF filterMode = "ignored" THEN <<ignored>>
     ELSE <<>>

NextTool ==
  \/ InitLoadTemplates
  \/ InitLoadState
  \/ InitBranchLevel
  \/ \E f \in world.files : EvaluateCurrent(f)
  \/ \E id \in CallerIds : IgnoreCurrent(id)
  \/ \E id \in CallerIds : CompleteTodoTool(id)

SpecTool == InitTool /\ [][NextTool]_vars

----------------------------------------------------------------------------
(* Vocabulary of the properties *)

\* the todos of a branch as getTodos(branch) lists them
BranchTodos(tds, b) == IF MapHas(tds, b) THEN tds[b] ELSE EmptyMap

\* what the store holds for a branch: None when it has no entry
BranchEntry(tds, b) == IF MapHas(tds, b) THEN Some(tds[b]) ELSE None

\* the file passes the template's path and content conditions when a read
\* of it gives rd
Satisfies(template, file, rd) ==
  /\ NonEmpty(template.applyTo)
  /\ minimatch(file, template.applyTo)
  /\ NonEmpty(template.fileContains) =>
       rd # None /\ Includes(rd[1], template.fileContains)
  /\ NonEmpty(template.excludeFileContains) =>
       rd # None /\ ~Includes(rd[1], template.excludeFileContains)

TemplateSet == {templates[i] : i \in 1..Len(templates)}

\* the id of the instance a template yields for a file
InstanceId(template, file) ==
  IF Truthy(template.branchLevel) THEN BranchTodoId(template.id)
  ELSE FileTodoId(template.id, file)

----------------------------------------------------------------------------
(* C1: evaluating a file a second time, with the same content, templates    *)
(* and branch, changes nothing in the store, saves nothing and fires no     *)
(* change event; after the first evaluation every template the file         *)
(* satisfies has its instance in the branch.                                *)

C1_Idempotent ==
  \A f \in world.files, b \in world.branches : \A rd \in ReadsOf(f) :
    \A first \in {FileResult(templates, todos, AbsPath(f), b, rd)} :
      /\ \A second \in {FileResult(templates, first.todos, AbsPath(f), b, rd)} :
           /\ second.todos = first.todos
           /\ ~second.saved
           /\ second.fired = 0
      /\ \A t \in TemplateSet :
           (Satisfies(t, f, rd) /\ rd # None /\ ~isBinaryFile(AbsPath(f)))
             => /\ MapHas(first.todos[b], InstanceId(t, f))
                /\ first.todos[b][InstanceId(t, f)].templateId = t.id

\* a file was evaluated again: its instance is on both branches and the
\* last evaluation saved nothing
C1_Witness ==
  /\ world = WorldIso
  /\ lastOp = Op("createTodosForFile", FALSE, 0)
  /\ \A b \in world.branches :
       MapHas(BranchTodos(todos, b), FileTodoId(tplFile.id, fileA))

----------------------------------------------------------------------------
(* C2: an operation invoked for branch a (the four status verbs,            *)
(* clearBranchTodos, createTodosForFile, createBranchLevelTodos) leaves     *)
(* what the store holds for every other branch as it was, the instance with *)
(* the same id included.                                                    *)

\* the outcomes of every operation a caller can invoke for branch a
OutcomesOn(a) ==
  UNION {{completeTodo(todos, id, a, now), ignoreTodo(todos, id, a, now)} :
           id \in CallerIds, now \in Times}
  \cup UNION {{reopenTodo(todos, id, a), unignoreTodo(todos, id, a)} : id \in CallerIds}
  \cup {clearBranchTodos(todos, a)}
  \cup UNION {FileResults(todos, f, a) : f \in world.files}
  \cup BranchResults(todos, a)

C2_BranchIsolation ==
  \A a \in world.branches :
    \A b \in world.branches \ {a} :
      \A r \in OutcomesOn(a) : BranchEntry(r.todos, b) = BranchEntry(todos, b)

\* the same todo id on both branches, completed on one and pending on the
\* other, right after a completeTodo
C2_Witness ==
  /\ lastOp = Op("completeTodo", TRUE, 1)
  /\ \E a, b \in DOMAIN todos :
       /\ a # b
       /\ \E id \in (DOMAIN todos[a]) \cap (DOMAIN todos[b]) :
            todos[a][id].completed /\ ~todos[b][id].completed

----------------------------------------------------------------------------
(* C3: saveState followed by loadState into a fresh TodoManager, with the   *)
(* template of every instance still loaded, gives the same branches, the    *)
(* same ids per branch and, per instance, the same completed and ignored    *)
(* flags, timestamps, filePath, branch-level flag (as a truth value) and    *)
(* triggeringFiles.                                                         *)

AllTemplatesLoaded(tds, ts) ==
  \A b \in DOMAIN tds : \A id \in DOMAIN tds[b] :
    FindTemplate(ts, tds[b][id].templateId) # None

SameState(t1, t2) ==
  /\ t1.completed = t2.completed
  /\ t1.completedAt = t2.completedAt
  /\ t1.ignored = t2.ignored
  /\ t1.ignoredAt = t2.ignoredAt
  /\ t1.filePath = t2.filePath
  /\ Truthy(t1.branchLevel) = Truthy(t2.branchLevel)
  /\ t1.triggeringFiles = t2.triggeringFiles

C3_RoundTrip ==
  AllTemplatesLoaded(todos, templates) =>
    LET restored == LoadedTodos(EmptyMap, Snapshot(todos), templates)
    IN  /\ DOMAIN restored = DOMAIN todos
        /\ \A b \in DOMAIN todos :
             /\ DOMAIN restored[b] = DOMAIN todos[b]
             /\ \A id \in DOMAIN todos[b] : SameState(restored[b][id], todos[b][id])

\* a restarted session has just loaded a snapshot that holds a completed
\* branch-level todo with two triggering files, and saving it again gives
\* the snapshot back
C3_Witness ==
  /\ pc = "branchLevel"
  /\ lastOp.op = "loadState"
  /\ AllTemplatesLoaded(todos, templates)
  /\ Snapshot(todos) = stored
  /\ \E b \in DOMAIN todos : \E id \in DOMAIN todos[b] :
       /\ todos[b][id].completed
       /\ todos[b][id].completedAt # None
       /\ todos[b][id].triggeringFiles # None
       /\ Len(todos[b][id].triggeringFiles[1]) = 2

----------------------------------------------------------------------------
(* C4: after loadState no branch holds an instance whose templateId is not  *)
(* the id of a loaded template, the persisted entries of removed templates  *)
(* are not in the store, and no later operation brings in an instance of a  *)
(* template that is not loaded.                                             *)

NoOrphans(tds, ts) == AllTemplatesLoaded(tds, ts)

\* the persisted entries whose template is not loaded
PersistedOrphans ==
  {o \in UNION {{<<b, id>> : id \in DOMAIN stored[b].todos} : b \in DOMAIN stored} :
     FindTemplate(templates, stored[o[1]].todos[o[2]].templateId) = None}

C4_OrphansPrunedAtLoad ==
  /\ pc = "branchLevel" =>
       /\ NoOrphans(todos, templates)
       /\ \A o \in PersistedOrphans : ~MapHas(BranchTodos(todos, o[1]), o[2])
  /\ \A a \in world.branches : \A r \in OutcomesOn(a) :
       \A b \in DOMAIN r.todos : \A id \in DOMAIN r.todos[b] :
         ~MapHas(BranchTodos(todos, b), id) =>
            FindTemplate(templates, r.todos[b][id].templateId) # None

\* loadState has just skipped a persisted entry whose template was removed
C4_Witness ==
  /\ pc = "branchLevel"
  /\ lastOp.op = "loadState"
  /\ PersistedOrphans # {}
  /\ templates # <<>>

----------------------------------------------------------------------------
(* C5: after loadTemplates has reloaded .todo.json in a running session,    *)
(* the store holds no instance whose templateId is missing from the         *)
(* reloaded template set.                                                   *)

C5_ReloadPrunes ==
  (pc = "ready" /\ lastOp.op = "loadTemplates") => NoOrphans(todos, templates)

----------------------------------------------------------------------------
(* C6: for a branch-level template T with applyTo, evaluating a file that   *)
(* satisfies T leaves the branch with the instance "branch:T" whose         *)
(* triggeringFiles holds the file's relative path exactly once; when the    *)
(* path was recorded already the evaluation changes nothing and reports no  *)
(* mutation; triggeringFiles never holds a path twice and no operation      *)
(* removes a path from the triggeringFiles of an instance it keeps.         *)

NoDuplicates(arr) == \A i, j \in 1..Len(arr) : arr[i] = arr[j] => i = j

Occurrences(arr, x) == Cardinality({i \in 1..Len(arr) : arr[i] = x})

\* the triggeringFiles array of an instance, [] when it has none
FilesOf(todo) == IF todo.triggeringFiles = None THEN <<>> ELSE todo.triggeringFiles[1]

AggTemplates == {t \in TemplateSet : Truthy(t.branchLevel) /\ NonEmpty(t.applyTo)}

C6_Aggregation ==
  /\ \A b \in DOMAIN todos : \A id \in DOMAIN todos[b] : NoDuplicates(FilesOf(todos[b][id]))
  /\ \A b \in world.branches, f \in world.files : \A rd \in ReadsOf(f) :
       \A t \in AggTemplates :
         (Satisfies(t, f, rd) /\ rd # None /\ ~isBinaryFile(AbsPath(f))) =>
           \A r \in {FileResult(templates, todos, AbsPath(f), b, rd)} :
           LET id == BranchTodoId(t.id)
           IN  /\ MapHas(r.todos[b], id)
               /\ r.todos[b][id].id = id
               /\ r.todos[b][id].templateId = t.id
               /\ Occurrences(FilesOf(r.todos[b][id]), f) = 1
               /\ (MapHas(BranchTodos(todos, b), id)
                     /\ ArrIncludes(FilesOf(todos[b][id]), f))
                    => (r.todos = todos /\ ~r.saved /\ r.fired = 0)
  /\ \A b \in DOMAIN todos : \A id \in DOMAIN todos[b] :
       \A i \in 1..Len(FilesOf(todos[b][id])) :
         \A a \in world.branches : \A r \in OutcomesOn(a) :
           MapHas(BranchTodos(r.todos, b), id) =>
             ArrIncludes(FilesOf(r.todos[b][id]), FilesOf(todos[b][id])[i])

\* createTodosForFile has just added a second file to the instance of the
\* branch-level template: it holds the two matching files
C6_Witness ==
  /\ world = WorldMarked
  /\ lastOp = Op("createTodosForFile", TRUE, 1)
  /\ MapHas(BranchTodos(todos, "main"), BranchTodoId(tplAggMarked.id))
  /\ Len(FilesOf(todos["main"][BranchTodoId(tplAggMarked.id)])) = 2
  /\ {FilesOf(todos["main"][BranchTodoId(tplAggMarked.id)])[i] : i \in 1..2} = {fileA, fileB}

----------------------------------------------------------------------------
(* C7: createBranchLevelTodos creates no instance for a branch-level        *)
(* template with applyTo when no changed file satisfies its path and        *)
(* content conditions.                                                      *)

C7_NoMatchNoInstance ==
  \A b \in world.branches, changed \in world.changed, reads \in world.reads :
    \A r \in {BranchResult(templates, todos, b,
                           [i \in 1..Len(changed) |-> AbsPath(changed[i])], reads)} :
        \A t \in AggTemplates :
          (/\ ~MapHas(BranchTodos(todos, b), BranchTodoId(t.id))
           /\ ~\E i \in 1..Len(changed) : Satisfies(t, changed[i], reads[changed[i]]))
            => ~MapHas(r.todos[b], BranchTodoId(t.id))

\* createBranchLevelTodos ran with the template loaded and left the branch
\* with an empty collection
C7_Witness ==
  /\ world = WorldMarked
  /\ pc = "ready"
  /\ lastOp = Op("createBranchLevelTodos", FALSE, 0)
  /\ templates = <<tplAggMarked>>
  /\ MapHas(todos, "main")
  /\ todos["main"] = EmptyMap

----------------------------------------------------------------------------
(* C8: after createBranchLevelTodos(b), every template with branchLevel =   *)
(* true and no applyTo has its instance "branch:<templateId>" on b,         *)
(* whatever the changed files; an instance that existed is left as it was,  *)
(* and a further call leaves it as it is.                                   *)

PureTemplates == {t \in TemplateSet : t.branchLevel = Some(TRUE) /\ ~NonEmpty(t.applyTo)}

C8_PureBranchLevel ==
  \A b \in world.branches : \A r \in BranchResults(todos, b) :
    \A t \in PureTemplates :
      LET id == BranchTodoId(t.id)
      IN  /\ MapHas(r.todos[b], id)
          /\ r.todos[b][id].id = id
          /\ r.todos[b][id].templateId = t.id
          /\ MapHas(BranchTodos(todos, b), id) => r.todos[b][id] = todos[b][id]
          /\ \A again \in BranchResults(r.todos, b) :
               /\ DOMAIN again.todos[b] = DOMAIN r.todos[b]
               /\ again.todos[b][id] = r.todos[b][id]

\* createBranchLevelTodos ran again on a branch whose pure branch-level
\* todo is completed, and changed nothing
C8_Witness ==
  /\ world = WorldFile
  /\ lastOp = Op("createBranchLevelTodos", FALSE, 0)
  /\ tplPure \in TemplateSet
  /\ MapHas(BranchTodos(todos, "main"), BranchTodoId(tplPure.id))
  /\ todos["main"][BranchTodoId(tplPure.id)].completed

----------------------------------------------------------------------------
(* C9: completeTodo then reopenTodo leaves the instance not completed with  *)
(* completedAt cleared, ignoreTodo then unignoreTodo leaves it not ignored  *)
(* with ignoredAt cleared, and a pending instance is then exactly as it was *)
(* before the pair.                                                         *)

Pending(todo) == ~todo.completed /\ ~todo.ignored

C9_StatusSymmetry ==
  \A b \in DOMAIN todos : \A id \in DOMAIN todos[b] : \A now \in Times :
    LET reopened  == reopenTodo(completeTodo(todos, id, b, now).todos, id, b).todos
        unignored == unignoreTodo(ignoreTodo(todos, id, b, now).todos, id, b).todos
    IN  /\ ~reopened[b][id].completed
        /\ reopened[b][id].completedAt = None
        /\ ~unignored[b][id].ignored
        /\ unignored[b][id].ignoredAt = None
        /\ Pending(todos[b][id]) => (reopened = todos /\ unignored = todos)

\* a completed todo has just been reopened: no todo of the store is
\* completed and none carries a completion timestamp
C9_Witness ==
  /\ lastOp = Op("reopenTodo", TRUE, 1)
  /\ \E b \in DOMAIN todos : DOMAIN todos[b] # {}
  /\ \A b \in DOMAIN todos : \A id \in DOMAIN todos[b] :
       ~todos[b][id].completed /\ todos[b][id].completedAt = None

----------------------------------------------------------------------------
(* C10: an instance is never both completed and ignored.                    *)

C10_TriState ==
  \A b \in DOMAIN todos : \A id \in DOMAIN todos[b] :
    ~(todos[b][id].completed /\ todos[b][id].ignored)

----------------------------------------------------------------------------
(* C11: every instance has completedAt set exactly when completed is true   *)
(* and ignoredAt set exactly when ignored is true.                          *)

C11_TimestampConsistency ==
  \A b \in DOMAIN todos : \A id \in DOMAIN todos[b] :
    /\ todos[b][id].completed <=> todos[b][id].completedAt # None
    /\ todos[b][id].ignored <=> todos[b][id].ignoredAt # None

\* an ignored todo has just been unignored while another flag of the store
\* is set: timestamps set and cleared are both present
C11_Witness ==
  /\ lastOp = Op("unignoreTodo", TRUE, 1)
  /\ \E b \in DOMAIN todos : \E id \in DOMAIN todos[b] :
       /\ todos[b][id].completed /\ todos[b][id].completedAt # None
       /\ ~todos[b][id].ignored /\ todos[b][id].ignoredAt = None

----------------------------------------------------------------------------
(* C12: completeTodo, reopenTodo, ignoreTodo and unignoreTodo called with a *)
(* branch that has no collection, or with an id absent from the branch's    *)
(* collection, return with the store exactly as it was: no instance         *)
(* changed, none created, no branch entry created.                          *)

C12_UnknownTargetNoOp ==
  \A b \in world.branches : \A id \in CallerIds :
    ~Known(todos, id, b) =>
      /\ \A now \in Times :
           /\ completeTodo(todos, id, b, now).todos = todos
           /\ ignoreTodo(todos, id, b, now).todos = todos
      /\ reopenTodo(todos, id, b).todos = todos
      /\ unignoreTodo(todos, id, b).todos = todos

\* completeTodo has just returned early, in a store where one branch has
\* no collection and another holds todos
C12_Witness ==
  /\ lastOp = Op("completeTodo", FALSE, 0)
  /\ \E b \in world.branches : ~MapHas(todos, b)
  /\ \E b \in DOMAIN todos : DOMAIN todos[b] # {}

----------------------------------------------------------------------------
(* C13: every call of completeTodo, reopenTodo, ignoreTodo, unignoreTodo or *)
(* clearBranchTodos saves the snapshot once and fires one change            *)
(* notification, whatever the id and the branch.                            *)

PersistsAndNotifies(r) == r.saved /\ r.fired = 1

C13_AlwaysPersistAndNotify ==
  pc = "ready" =>
    \A b \in world.branches :
      /\ PersistsAndNotifies(clearBranchTodos(todos, b))
      /\ \A id \in CallerIds :
           /\ \A now \in Times :
                /\ PersistsAndNotifies(completeTodo(todos, id, b, now))
                /\ PersistsAndNotifies(ignoreTodo(todos, id, b, now))
           /\ PersistsAndNotifies(reopenTodo(todos, id, b))
           /\ PersistsAndNotifies(unignoreTodo(todos, id, b))

----------------------------------------------------------------------------
(* C14: createTodosForFile saves the snapshot and fires the change          *)
(* notification, once each, exactly when the call created an instance or    *)
(* added a path to the triggeringFiles of a branch-level instance; a call   *)
(* after which every instance is as before neither saves nor fires.         *)

\* ids the branch holds after and not before
CreatedIds(before, after, b) == DOMAIN BranchTodos(after, b) \ DOMAIN BranchTodos(before, b)

\* ids of the branch whose triggeringFiles is longer after than before
GrownIds(before, after, b) ==
  {id \in DOMAIN BranchTodos(before, b) \cap DOMAIN BranchTodos(after, b) :
     Len(FilesOf(after[b][id])) > Len(FilesOf(before[b][id]))}

C14_SaveIffMutation ==
  \A b \in world.branches, f \in world.files :
    \A r \in FileResults(todos, f, b) :
      /\ r.saved <=> (CreatedIds(todos, r.todos, b) # {} \/ GrownIds(todos, r.todos, b) # {})
      /\ r.fired = IF r.saved THEN 1 ELSE 0
      /\ BranchTodos(r.todos, b) = BranchTodos(todos, b) => (~r.saved /\ r.fired = 0)

\* createTodosForFile has just created the file-scoped todo of src/a.go
\* and saved: the snapshot mirrors the store
C14_Witness ==
  /\ world = WorldFile
  /\ lastOp = Op("createTodosForFile", TRUE, 1)
  /\ MapHas(BranchTodos(todos, "main"), FileTodoId(tplFile.id, fileA))
  /\ stored = Snapshot(todos)

----------------------------------------------------------------------------
(* C15 as stated: on a branch without the instance, createTodosForFile(f,b) *)
(* creates "<T.id>:<relativePath>" for a non-branch-level template T        *)
(* exactly when f's path matches T.applyTo, f's content contains            *)
(* T.fileContains when set and does not contain T.excludeFileContains when  *)
(* set; the new instance is pending, belongs to b and has T's priority, or  *)
(* medium.                                                                  *)

FileTemplates == {t \in TemplateSet : ~Truthy(t.branchLevel)}

PendingNew(todo, template, b) ==
  /\ ~todo.completed /\ ~todo.ignored
  /\ todo.branch = b
  /\ todo.templateId = template.id
  /\ todo.priority = (IF template.priority = None THEN "medium" ELSE template.priority[1])

C15_MatchPredicate ==
  \A b \in world.branches, f \in world.files : \A rd \in ReadsOf(f) :
    \A t \in FileTemplates :
      LET id == FileTodoId(t.id, f)
          r  == FileResult(templates, todos, AbsPath(f), b, rd)
      IN  (pc = "ready" /\ ~MapHas(BranchTodos(todos, b), id)) =>
            /\ MapHas(BranchTodos(r.todos, b), id) <=> Satisfies(t, f, rd)
            /\ MapHas(BranchTodos(r.todos, b), id) => PendingNew(r.todos[b][id], t, b)

(* C15 amended: the equivalence holds for a file that can be read and has   *)
(* no binary extension; for a file that is binary by extension or cannot be *)
(* read nothing is created.  Among templates sharing an id the first one    *)
(* the file satisfies gives the instance its priority.                      *)

\* the first template of this.templates with this id that the file satisfies
FirstSatisfied(id, f, rd) ==
  LET hits == {i \in 1..Len(templates) :
                 /\ templates[i].id = id /\ ~Truthy(templates[i].branchLevel)
                 /\ Satisfies(templates[i], f, rd)}
  IN  templates[CHOOSE i \in hits : \A j \in hits : i <= j]

C15_MatchPredicateReadable ==
  \A b \in world.branches, f \in world.files : \A rd \in ReadsOf(f) :
    \A r \in {FileResult(templates, todos, AbsPath(f), b, rd)} :
    \A t \in FileTemplates :
      LET id == FileTodoId(t.id, f)
          satisfied == \E u \in FileTemplates : u.id = t.id /\ Satisfies(u, f, rd)
      IN  ~MapHas(BranchTodos(todos, b), id) =>
            IF isBinaryFile(AbsPath(f)) \/ rd = None
            THEN ~MapHas(BranchTodos(r.todos, b), id)
            ELSE /\ MapHas(BranchTodos(r.todos, b), id) <=> satisfied
                 /\ MapHas(BranchTodos(r.todos, b), id) =>
                      PendingNew(r.todos[b][id], FirstSatisfied(t.id, f, rd), b)

\* both templates have created their todo, for src/a.go and for doc/r.md,
\* still pending, the one without priority as medium
C15_Witness ==
  /\ world = WorldMatch
  /\ lastOp = Op("createTodosForFile", TRUE, 1)
  /\ MapHas(BranchTodos(todos, "main"), FileTodoId(tplEx.id, fileA))
  /\ MapHas(BranchTodos(todos, "main"), FileTodoId(tplPath.id, fileDoc))
  /\ PendingNew(todos["main"][FileTodoId(tplEx.id, fileA)], tplEx, "main")
  /\ todos["main"][FileTodoId(tplEx.id, fileA)].priority = "medium"
  /\ PendingNew(todos["main"][FileTodoId(tplPath.id, fileDoc)], tplPath, "main")

----------------------------------------------------------------------------
(* C16: createTodosForFile calls readFileSync only for a file whose         *)
(* relative path matches the applyTo of some template, file-scoped or       *)
(* branch-level; and the content conditions of a template are reached only  *)
(* when the path matches that template's applyTo.                           *)

PathMatches(template, f) == NonEmpty(template.applyTo) /\ minimatch(f, template.applyTo)

C16_PathShortCircuit ==
  \A b \in world.branches, f \in world.files : \A rd \in ReadsOf(f) :
    \A r \in {FileResult(templates, todos, AbsPath(f), b, rd)} :
        /\ r.read => \E t \in TemplateSet : PathMatches(t, f)
        /\ \A t \in TemplateSet : t.id \in r.checked => PathMatches(t, f)
        /\ r.checked # {} => r.read

\* src/a.go has just been read and evaluated: it matches the pattern of
\* one loaded template and not that of the other, and got its todo
C16_Witness ==
  /\ world = WorldMatch
  /\ lastOp = Op("createTodosForFile", TRUE, 1)
  /\ {tplEx, tplPath} \subseteq TemplateSet
  /\ PathMatches(tplEx, fileA) /\ ~PathMatches(tplPath, fileA)
  /\ DOMAIN BranchTodos(todos, "main") = {FileTodoId(tplEx.id, fileA)}

----------------------------------------------------------------------------
(* C17: a file whose content cannot be read causes no instance to be        *)
(* created and no path to be added to any triggeringFiles, in               *)
(* createTodosForFile and in createBranchLevelTodos, also for templates     *)
(* with a path pattern and no content condition.                            *)

\* the paths the branch's instances record after and did not record before
AddedPaths(before, after, b) ==
  UNION {{FilesOf(after[b][id])[i] : i \in 1..Len(FilesOf(after[b][id]))}
           \ (IF MapHas(BranchTodos(before, b), id)
              THEN {FilesOf(before[b][id])[i] : i \in 1..Len(FilesOf(before[b][id]))}
              ELSE {}) :
         id \in DOMAIN BranchTodos(after, b)}

C17_UnreadableNeverMatches ==
  pc = "ready" =>
    \A b \in world.branches, reads \in world.reads :
      /\ \A f \in world.files :
           reads[f] = None =>
             BranchTodos(FileResult(templates, todos, AbsPath(f), b, reads[f]).todos, b)
               = BranchTodos(todos, b)
      /\ \A changed \in world.changed :
           LET r == BranchResult(templates, todos, b,
                                 [i \in 1..Len(changed) |-> AbsPath(changed[i])], reads)
           IN  \A p \in AddedPaths(todos, r.todos, b) : reads[p] # None

----------------------------------------------------------------------------
(* C18: the templates the manager holds have passed validation: every entry *)
(* has a non-empty id, name and description and has applyTo or              *)
(* branchLevel = true, and no two entries share an id.                      *)

ValidEntry(t) ==
  /\ NonEmpty(t.id) /\ t.name # "" /\ t.description # ""
  /\ NonEmpty(t.applyTo) \/ t.branchLevel = Some(TRUE)

C18_TemplatesValidated ==
  /\ \A i \in 1..Len(templates) : ValidEntry(templates[i])
  /\ \A i, j \in 1..Len(templates) : templates[i].id = templates[j].id => i = j

----------------------------------------------------------------------------
(* C19: a loadTemplates that fails (.todo.json missing, unparsable, or      *)
(* without a templates array) after a template set was loaded leaves that   *)
(* template set in effect.                                                  *)

C19_FailedReloadKeepsTemplates ==
  (pc = "ready" /\ templates # <<>>) =>
    \A cfg \in world.configs :
      cfg.kind # "ok" => LoadedTemplates(cfg) = templates

----------------------------------------------------------------------------
(* C20: in a session whose initialize found .todo.json missing or           *)
(* malformed, and so ended with no templates, whatever the session does     *)
(* next (an evaluation of a file, also after .todo.json was repaired and    *)
(* reloaded, or clearing another branch) leaves every persisted instance in *)
(* the snapshot as it was.                                                  *)

\* the snapshot after an operation with outcome r
StoredAfter(r) == IF r.saved THEN Snapshot(r.todos) ELSE stored

\* the persisted instances of the branches in bs are in snapshot st as they
\* are in stored
Keeps(st, bs) ==
  \A b \in bs :
    /\ b \in DOMAIN st
    /\ \A id \in DOMAIN stored[b].todos :
         /\ id \in DOMAIN st[b].todos
         /\ st[b].todos[id] = stored[b].todos[id]

C20_ConfigErrorKeepsPersisted ==
  (pc = "ready" /\ lastOp.op = "initialize" /\ templates = <<>>) =>
    /\ \A a \in world.branches :
         Keeps(StoredAfter(clearBranchTodos(todos, a)), DOMAIN stored \ {a})
    /\ \A cfg \in world.configs, b \in world.branches, f \in world.files :
         \A rd \in ReadsOf(f) :
         Keeps(StoredAfter(FileResult(LoadedTemplates(cfg), todos, AbsPath(f), b, rd)),
               DOMAIN stored)

----------------------------------------------------------------------------
(* C21: after loadState every restored instance has the name, description  *)
(* and priority (medium when there is none) of the loaded template with    *)
(* its templateId, the first one in this.templates, whatever the template  *)
(* said when the instance was created; the snapshot holds none of the      *)
(* three fields.                                                           *)

\* the display fields of the instance are those of the template that
\* this.templates.find gives for its templateId
DisplayFrom(todo, ts) ==
  LET found == FindTemplate(ts, todo.templateId)
  IN  /\ found # None
      /\ todo.name = found[1].name
      /\ todo.description = found[1].description
      /\ todo.priority = (IF found[1].priority = None THEN "medium"
                          ELSE found[1].priority[1])

displayFields == {"name", "description", "priority"}

C21_DisplayRederived ==
  /\ pc = "branchLevel" =>
       \A b \in DOMAIN todos : \A id \in DOMAIN todos[b] :
         DisplayFrom(todos[b][id], templates)
  /\ \A cfg \in world.configs :
       \A restored \in {LoadedTodos(EmptyMap, stored, LoadedTemplates(cfg))} :
         \A b \in DOMAIN restored : \A id \in DOMAIN restored[b] :
           DisplayFrom(restored[b][id], LoadedTemplates(cfg))
  /\ \A b \in DOMAIN stored : \A id \in DOMAIN stored[b].todos :
       DOMAIN stored[b].todos[id] \cap displayFields = {}

\* loadState has just restored the todo of src/a.go under a template that
\* src/a.go does not satisfy, so the todo was created under another
\* version of the template, and it shows the loaded version's fields
C21_Witness ==
  /\ world = WorldEdit
  /\ pc = "branchLevel"
  /\ lastOp.op = "loadState"
  /\ templates = <<tplNarrowed>>
  /\ MapHas(BranchTodos(todos, "main"), FileTodoId(tplFile.id, fileA))
  /\ todos["main"][FileTodoId(tplFile.id, fileA)].name = tplNarrowed.name
  /\ todos["main"][FileTodoId(tplFile.id, fileA)].priority = "low"

----------------------------------------------------------------------------
(* C22: after a reload changed a template's name, description or priority, *)
(* an evaluation of a file that satisfies the template leaves the file's   *)
(* instance with the display fields of a loaded template with its          *)
(* templateId: the existing instance is rewritten from the current         *)
(* template.                                                               *)

\* the display fields of the instance are those of some loaded template
\* with its templateId
DisplayCurrent(todo) ==
  \E t \in TemplateSet :
    /\ t.id = todo.templateId
    /\ todo.name = t.name
    /\ todo.description = t.description
    /\ todo.priority = (IF t.priority = None THEN "medium" ELSE t.priority[1])

C22_EvaluationRewritesDisplay ==
  pc = "ready" =>
    \A b \in world.branches, f \in world.files : \A rd \in ReadsOf(f) :
      \A r \in {FileResult(templates, todos, AbsPath(f), b, rd)} :
        \A t \in TemplateSet :
          (Satisfies(t, f, rd) /\ rd # None /\ ~isBinaryFile(AbsPath(f))) =>
            /\ MapHas(BranchTodos(r.todos, b), InstanceId(t, f))
            /\ DisplayCurrent(r.todos[b][InstanceId(t, f)])

----------------------------------------------------------------------------
(* C23: in a running session every step other than clearBranchTodos(b)     *)
(* (an evaluation by createTodosForFile, createBranchLevelTodos or         *)
(* refreshTodos, a status verb, a template reload, clearing another        *)
(* branch) leaves every id of branch b's collection in the collection.     *)

\* the step ends the session (the manager is constructed anew)
EndsSession == lastOp'.op = "new"

\* the step is clearBranchTodos(b)
Clears(b) == lastOp'.op = "clearBranchTodos" /\ ~MapHas(todos', b)

C23_InstanceLifetime ==
  [][\A b \in DOMAIN todos : \A id \in DOMAIN todos[b] :
       (~EndsSession /\ ~Clears(b)) => MapHas(BranchTodos(todos', b), id)]_vars

\* src/a.go was evaluated again under a version of the template it does
\* not satisfy, and its todo is still there
C23_Witness ==
  /\ world = WorldEdit
  /\ templates = <<tplNarrowed>>
  /\ lastOp = Op("createTodosForFile", FALSE, 0)
  /\ ~Satisfies(tplNarrowed, fileA, Some(withMarker))
  /\ MapHas(BranchTodos(todos, "main"), FileTodoId(tplNarrowed.id, fileA))

----------------------------------------------------------------------------
(* C24: createTodosForFile, createBranchLevelTodos and refreshTodos leave   *)
(* completed, completedAt, ignored and ignoredAt of every instance that    *)
(* exists when they start as they were.                                    *)

\* the four status fields of an instance
StatusOf(todo) ==
  <<todo.completed, todo.completedAt, todo.ignored, todo.ignoredAt>>

\* every instance of before is in after with the status it had
StatusKept(before, after) ==
  \A b \in DOMAIN before : \A id \in DOMAIN before[b] :
    /\ MapHas(BranchTodos(after, b), id)
    /\ StatusOf(after[b][id]) = StatusOf(before[b][id])

C24_EvaluationKeepsStatus ==
  \A a \in world.branches :
    /\ \A f \in world.files : \A rd \in ReadsOf(f) :
         StatusKept(todos, FileResult(templates, todos, AbsPath(f), a, rd).todos)
    /\ \A r \in BranchResults(todos, a) : StatusKept(todos, r.todos)
    /\ \A r \in RefreshResults(todos, a) : StatusKept(todos, r.todos)

\* refreshTodos has just recorded a second triggering file on a branch-
\* level todo that was completed and ignored, and it still is
C24_Witness ==
  /\ world = WorldMarked
  /\ lastOp.op = "refreshTodos"
  /\ lastOp.saved
  /\ MapHas(BranchTodos(todos, "main"), BranchTodoId(tplAggMarked.id))
  /\ \A todo \in {todos["main"][BranchTodoId(tplAggMarked.id)]} :
       /\ todo.completed /\ todo.completedAt # None
       /\ todo.ignored /\ todo.ignoredAt # None
       /\ todo.triggeringFiles = Some(<<fileB, fileA>>)

----------------------------------------------------------------------------
(* C25: an operation that changed the in-memory store fires a change event *)
(* also when its write of the snapshot fails; the change stays in memory.  *)

C25_NotifiesDespiteWriteFailure ==
  pc = "ready" =>
    \A a \in world.branches, ok \in world.writes :
      \A r \in OutcomesOn(a) :
        r.todos # todos =>
          /\ Finish(r, ok).todos = r.todos
          /\ Finish(r, ok).fired >= 1

----------------------------------------------------------------------------
(* C26: when a createBranchLevelTodos call that was waiting at an await     *)
(* goes on, every instance the branch holds at that moment keeps its       *)
(* status and every path of its triggeringFiles: the call overwrites no    *)
(* instance that another operation created or changed while it waited.     *)

\* the step is one in which a createBranchLevelTodos call runs to its end
EndsBranchLevelCall == lastOp'.op = "createBranchLevelTodos"

C26_NoLostUpdate ==
  [][EndsBranchLevelCall =>
       \A b \in DOMAIN todos : \A id \in DOMAIN todos[b] :
         MapHas(BranchTodos(todos', b), id) =>
           /\ StatusOf(todos'[b][id]) = StatusOf(todos[b][id])
           /\ \A i \in 1..Len(FilesOf(todos[b][id])) :
                ArrIncludes(FilesOf(todos'[b][id]), FilesOf(todos[b][id])[i])]_vars

----------------------------------------------------------------------------
(* C27 as stated: a path has at most one pending timer, and once the timer *)
(* set by the last event of a burst has expired the file has been          *)
(* evaluated by createTodosForFile exactly once since that event.          *)

OneTimerPerPath ==
  \A f \in Watched :
    /\ watcher[f].timers <= 1
    /\ watcher[f].held <=> watcher[f].timers = 1

C27_BurstGivesOneEvaluation ==
  /\ OneTimerPerPath
  /\ \A f \in Watched : watcher[f].expired # "none" => watcher[f].evals = 1

(* C27 amended: a path has at most one pending timer, which              *)
(* debounceTimers holds; since the last event for a path the file has     *)
(* been evaluated at most once, namely once when the timer has expired    *)
(* and git reported the file as changed at that moment, and not at all    *)
(* while the timer is pending or when git reported it as unchanged; no    *)
(* timer is ever set for .todo.json.                                      *)

(* A timer of a path goes away only by an event for the path or by its   *)
(* own expiry.                                                            *)

EvaluatedOncePerBurst ==
  /\ OneTimerPerPath
  /\ \A f \in Watched :
       /\ watcher[f].evals = (IF watcher[f].expired = "changed" THEN 1 ELSE 0)
       /\ watcher[f].timers = 1 => watcher[f].expired = "none"
       /\ watcher[f].expired # "none" => watcher[f].collapsed >= 1
  /\ watcher[todoJson] = Idle

OtherTimersKept ==
  \A f \in Watched :
    watcher'[f].timers < watcher[f].timers =>
      \/ watcher'[f].burst = watcher[f].burst + 1
      \/ watcher'[f].expired # "none" /\ watcher'[f].collapsed = watcher[f].burst

C27_Debounce == []EvaluatedOncePerBurst /\ [][OtherTimersKept]_vars

\* two events for src/a.go were collapsed into one timer, which has
\* expired and led to one evaluation that created the todo, while the
\* timer of doc/r.md, set before, is still pending
C27_Witness ==
  /\ watcher[fileA].collapsed = 2
  /\ watcher[fileA].expired = "changed"
  /\ watcher[fileA].evals = 1
  /\ watcher[fileA].timers = 0
  /\ watcher[fileDoc].timers = 1
  /\ lastOp = Op("createTodosForFile", TRUE, 1)
  /\ MapHas(BranchTodos(todos, "main"), FileTodoId(tplFile.id, fileA))

----------------------------------------------------------------------------
(* C28: within a branch two different (template, scope) pairs, the scope   *)
(* being a file for a file-scoped template and the branch for a branch-    *)
(* level one, never have the same todo id, and an evaluation gives every   *)
(* template that applies its own instance, whatever other instances the    *)
(* branch holds.                                                           *)

\* the (template id, scope) pairs of the loaded templates: the scope of a
\* branch-level template is the branch (None), that of a file-scoped one a
\* file (Some(path))
ScopedPairs ==
  {<<t.id, None>> : t \in {u \in TemplateSet : IsBranchLevelTemplate(u) \/ Truthy(u.branchLevel)}}
  \cup {<<t.id, Some(f)>> : t \in {u \in TemplateSet : NonEmpty(u.applyTo) /\ ~Truthy(u.branchLevel)},
                             f \in world.files}

\* the todo id the code derives for a pair
TodoIdOf(pair) ==
  IF pair[2] = None THEN BranchTodoId(pair[1]) ELSE FileTodoId(pair[1], pair[2][1])

C28_IdentityInjective ==
  pc = "ready" =>
    /\ \A p, q \in ScopedPairs : p # q => TodoIdOf(p) # TodoIdOf(q)
    /\ \A b \in world.branches, f \in world.files : \A rd \in ReadsOf(f) :
         \A r \in {FileResult(templates, todos, AbsPath(f), b, rd)} :
           \A t \in TemplateSet :
             (Satisfies(t, f, rd) /\ rd # None /\ ~isBinaryFile(AbsPath(f))) =>
               /\ MapHas(BranchTodos(r.todos, b), InstanceId(t, f))
               /\ r.todos[b][InstanceId(t, f)].templateId = t.id
    /\ \A b \in world.branches : \A r \in BranchResults(todos, b) :
         \A t \in TemplateSet :
           ~NonEmpty(t.applyTo) =>
             /\ MapHas(BranchTodos(r.todos, b), BranchTodoId(t.id))
             /\ r.todos[b][BranchTodoId(t.id)].templateId = t.id

----------------------------------------------------------------------------
(* C29: clearBranchTodos(b) leaves the store without an entry for b:        *)
(* getTodos(b) is empty and getAllBranchTodos has no key b; every other     *)
(* branch is as it was; the snapshot the call writes is that of the         *)
(* remaining branches and has no key b. An evaluation of a file on b after  *)
(* the clear creates the instance of every template the file satisfies as a *)
(* pending one, whatever the status of the instance that was cleared.       *)

C29_ClearRemovesBranch ==
  pc = "ready" =>
    \A b \in world.branches : \A ok \in world.writes :
      \A out \in {Finish(clearBranchTodos(todos, b), ok)} :
        /\ getTodos(out.todos, b) = {}
        /\ b \notin DOMAIN getAllBranchTodos(out.todos)
        /\ \A a \in DOMAIN todos \ {b} :
             /\ MapHas(out.todos, a)
             /\ out.todos[a] = todos[a]
        /\ out.saved
        /\ out.written =>
             /\ ~MapHas(Snapshot(out.todos), b)
             /\ \A a \in DOMAIN todos \ {b} :
                  /\ MapHas(Snapshot(out.todos), a)
                  /\ Snapshot(out.todos)[a] = Snapshot(todos)[a]
        /\ \A f \in world.files : \A rd \in ReadsOf(f) :
             \A r \in {FileResult(templates, out.todos, AbsPath(f), b, rd)} :
               \A t \in TemplateSet :
                 (Satisfies(t, f, rd) /\ rd # None /\ ~isBinaryFile(AbsPath(f))) =>
                   /\ MapHas(BranchTodos(r.todos, b), InstanceId(t, f))
                   /\ StatusOf(r.todos[b][InstanceId(t, f)]) = <<FALSE, None, FALSE, None>>

\* main has just been cleared, in the store and in the snapshot, and the
\* completed todo of feature/x is still in both
C29_Witness ==
  /\ world = WorldIso
  /\ lastOp = Op("clearBranchTodos", TRUE, 1)
  /\ ~MapHas(todos, "main")
  /\ ~MapHas(stored, "main")
  /\ MapHas(BranchTodos(todos, "feature/x"), FileTodoId(tplFile.id, fileA))
  /\ todos["feature/x"][FileTodoId(tplFile.id, fileA)].completed
  /\ stored = Snapshot(todos)

----------------------------------------------------------------------------
(* C30: a refreshTodos(b) that completes has run createBranchLevelTodos(b)  *)
(* and then createTodosForFile(f, b) for every changed file: every instance *)
(* createBranchLevelTodos gives is in b, and for every changed, readable,   *)
(* non-binary file f and every template T that f satisfies, b holds the     *)
(* instance of T for f (the file-scoped one, or "branch:<T.id>" with f in   *)
(* its triggeringFiles); no other branch's collection is changed.           *)

C30_RefreshCoversChangedFiles ==
  pc = "ready" =>
    \A b \in world.branches, changed \in world.changed, reads \in world.reads,
       ok \in world.writes :
      \A changedFiles \in {[i \in 1..Len(changed) |-> AbsPath(changed[i])]} :
        \A r \in {refreshTodos(templates, todos, b, changedFiles, reads, ok)} :
          ~r.aborted =>
            /\ \A id \in DOMAIN BranchResult(templates, todos, b, changedFiles, reads).todos[b] :
                 MapHas(BranchTodos(r.todos, b), id)
            /\ \A i \in 1..Len(changed) : \A t \in TemplateSet :
                 (/\ reads[changed[i]] # None
                  /\ ~isBinaryFile(changedFiles[i])
                  /\ Satisfies(t, changed[i], reads[changed[i]])) =>
                   /\ MapHas(BranchTodos(r.todos, b), InstanceId(t, changed[i]))
                   /\ Truthy(t.branchLevel) =>
                        \E k \in DOMAIN FilesOf(r.todos[b][InstanceId(t, changed[i])]) :
                          FilesOf(r.todos[b][InstanceId(t, changed[i])])[k] = changed[i]
            /\ \A a \in world.branches \ {b} : BranchEntry(r.todos, a) = BranchEntry(todos, a)

\* refreshTodos(main) has just created main's aggregated todo for the
\* changed file src/a.go, and feature/x has none
C30_Witness ==
  /\ world = WorldAgg
  /\ lastOp.op = "refreshTodos"
  /\ lastOp.saved
  /\ MapHas(BranchTodos(todos, "main"), BranchTodoId(tplAgg.id))
  /\ FilesOf(todos["main"][BranchTodoId(tplAgg.id)]) = <<fileA>>
  /\ ~MapHas(BranchTodos(todos, "feature/x"), BranchTodoId(tplAgg.id))

----------------------------------------------------------------------------
(* C31: when no operation is in progress and every save went through, the   *)
(* snapshot and the store have the same branch keys and, per branch, the    *)
(* same instance ids with the same statuses, timestamps and                 *)
(* triggeringFiles; an evaluation that creates no instance leaves the       *)
(* store's set of branch keys as it was.                                    *)

\* the snapshot has the branches and instances of the store, field by field
Mirrors(snapshot, tds) ==
  /\ DOMAIN snapshot = DOMAIN tds
  /\ \A b \in DOMAIN tds :
       /\ DOMAIN snapshot[b].todos = DOMAIN tds[b]
       /\ \A id \in DOMAIN tds[b] : snapshot[b].todos[id] = PersistedTodo(tds[b][id])

C31_SnapshotMirrorsStore ==
  (pc = "ready" /\ awaiting = None /\ world.writes = {TRUE}) =>
    /\ Mirrors(stored, todos)
    /\ \A b \in world.branches, f \in world.files :
         \A r \in FileResults(todos, f, b) :
           CreatedIds(todos, r.todos, b) = {} => DOMAIN r.todos = DOMAIN todos

----------------------------------------------------------------------------
(* C32: matchesTemplate(path, content, T) is false when T is branch-level   *)
(* without applyTo, and otherwise true exactly when the path matches        *)
(* T.applyTo, the content contains fileContains when set and does not       *)
(* contain excludeFileContains when set, so a branch-level template with    *)
(* applyTo matches a file that satisfies it; getMatchingTemplates returns   *)
(* the templates for which matchesTemplate is true, in input order.         *)

\* the stated result of matchesTemplate
MatchesAsStated(relativePath, fileContent, template) ==
  IF Truthy(template.branchLevel) /\ ~NonEmpty(template.applyTo) THEN FALSE
  ELSE /\ NonEmpty(template.applyTo)
       /\ minimatch(relativePath, template.applyTo)
       /\ NonEmpty(template.fileContains) => Includes(fileContent, template.fileContains)
       /\ NonEmpty(template.excludeFileContains) =>
            ~Includes(fileContent, template.excludeFileContains)

C32_MatcherContract ==
  pc = "ready" =>
    \A f \in world.files : \A rd \in ReadsOf(f) :
      rd # None =>
        /\ \A t \in TemplateSet :
             matchesTemplate(f, rd[1], t) = MatchesAsStated(f, rd[1], t)
        /\ \A stated \in {LET ok(t) == MatchesAsStated(f, rd[1], t)
                           IN  SelectSeq(templates, ok)} :
             getMatchingTemplates(f, rd[1], templates) = stated

----------------------------------------------------------------------------
(* C33: for a branch-level template T with applyTo, a list of changed       *)
(* files and a branch without "branch:<T.id>", createBranchLevelTodos(b)    *)
(* and createTodosForFile(f, b) called for each changed file f agree:       *)
(* "branch:<T.id>" exists after both or after neither, with the same set   *)
(* of triggeringFiles.                                                      *)

\* the store after createTodosForFile(f, branch) for each changed file in turn
EvaluatedEach(ts, tds, branch, changedFiles, reads) ==
  RefreshLoop([todos |-> tds, saved |-> FALSE, fired |-> 0, written |-> FALSE,
               savedTodos |-> tds, aborted |-> FALSE],
              ts, branch, changedFiles, reads, TRUE).todos

\* the set of paths in the triggeringFiles of an instance
FileSetOf(todo) == {FilesOf(todo)[k] : k \in DOMAIN FilesOf(todo)}

C33_EvaluationPathsAgree ==
  pc = "ready" =>
    \A b \in world.branches, changed \in world.changed, reads \in world.reads :
      \A t \in AggTemplates :
        ~MapHas(BranchTodos(todos, b), BranchTodoId(t.id)) =>
          \A changedFiles \in {[i \in 1..Len(changed) |-> AbsPath(changed[i])]} :
            \A byBranch \in {BranchTodos(BranchResult(templates, todos, b, changedFiles, reads).todos, b)},
               byFile \in {BranchTodos(EvaluatedEach(templates, todos, b, changedFiles, reads), b)} :
              /\ MapHas(byBranch, BranchTodoId(t.id)) <=> MapHas(byFile, BranchTodoId(t.id))
              /\ MapHas(byBranch, BranchTodoId(t.id)) =>
                   FileSetOf(byBranch[BranchTodoId(t.id)]) = FileSetOf(byFile[BranchTodoId(t.id)])

----------------------------------------------------------------------------
(* C34: in every reachable state the instance stored under key k of branch  *)
(* b has id = k and branch = b; a file-scoped instance has filePath and     *)
(* relativePath, k = "<templateId>:<relativePath>" and no triggeringFiles;  *)
(* a branch-level instance has branchLevel = true, neither filePath nor     *)
(* relativePath, and k = "branch:<templateId>".                             *)

WellFormed(k, b, todo) ==
  /\ todo.id = k
  /\ todo.branch = b
  /\ IF Truthy(todo.branchLevel)
     THEN /\ todo.branchLevel = Some(TRUE)
          /\ todo.filePath = None
          /\ todo.relativePath = None
          /\ k = BranchTodoId(todo.templateId)
     ELSE /\ todo.filePath # None
          /\ todo.relativePath # None
          /\ todo.filePath # None => todo.relativePath = Some(Relative(todo.filePath[1]))
          /\ todo.relativePath # None => k = FileTodoId(todo.templateId, todo.relativePath[1])
          /\ todo.triggeringFiles = None

----------------------------------------------------------------------------
(* C35 as stated: the file watcher evaluates only changed files.            *)
(* processFileChange(f) calls createTodosForFile only when git reports f    *)
(* as changed or there is no repository, so an event for an unchanged       *)
(* tracked file creates no todo; and a change to .todo.json never leads the *)
(* watcher to evaluate .todo.json.                                          *)

\* processFileChange leaves the store alone for a file git reports as
\* unchanged, and evaluates the file otherwise
ProcessGuarded ==
  \A f \in world.files, b \in world.branches, changed \in world.changed :
    \A r \in ProcessResults(todos, f, b, changed) :
      IF world.repository /\ ~ArrIncludes(changed, f)
      THEN r.todos = todos /\ ~r.saved /\ r.fired = 0 /\ ~r.read
      ELSE r \in FileResults(todos, f, b)

----------------------------------------------------------------------------
(* C36: on a git status run GitService fires onBranchChange(n) exactly when *)
(* the current branch name n differs from the name observed at the          *)
(* previous status run, or at listener setup; two consecutive events never  *)
(* carry the same name; the switchBranch that follows fires one change      *)
(* event and leaves the store and the snapshot as they are.                 *)

\* the step is a git status run that reaches the listener
StatusRun == lastOp'.op \in {"switchBranch", "onDidRunGitStatus"} /\ git.listening

\* the step fires onBranchChange
FiresBranchChange == git'.parity # git.parity

\* lastBranch is the name seen at the last status run or at setup
LastBranchObserved == git.listening => git.lastBranch = git.observed

BranchChangeStep ==
  StatusRun =>
    /\ FiresBranchChange <=> CurrentBranch # git.observed
    /\ FiresBranchChange =>
         /\ git'.fired = Some(CurrentBranch)
         /\ git'.fired # git.fired
         /\ lastOp' = Op("switchBranch", FALSE, 1)
    /\ ~FiresBranchChange => git'.fired = git.fired
    /\ todos' = todos
    /\ stored' = stored
    /\ git'.observed = CurrentBranch

----------------------------------------------------------------------------
(* C37: after FileWatcher.dispose() no debounce timer is pending, and the   *)
(* watcher starts neither a createTodosForFile evaluation nor a             *)
(* refreshTodos call, the debounced refresh of the git-state listener       *)
(* included.                                                                *)

C37_DisposeCancelsPendingWork ==
  listener.disposed =>
    /\ \A f \in Watched : watcher[f].timers = 0
    /\ lastOp.op \notin {"createTodosForFile", "refreshTodos"}
    /\ ~listener.late

----------------------------------------------------------------------------
(* C38: CompleteTodoTool.invoke on the current branch throws for an unknown *)
(* todoId and changes nothing; for a completed todo it returns without      *)
(* calling completeTodo, so the store (completedAt included) stays as it    *)
(* is and nothing is saved or notified; otherwise it marks that todo, and   *)
(* no other, completed. GetRemainingTasksTool.invoke returns exactly the    *)
(* todos of the current branch that are neither completed nor ignored, of   *)
(* the requested priority when that is given and is not "all".              *)

ToolUntouched(r) ==
  /\ ~r.called
  /\ r.todos = todos
  /\ ~r.saved
  /\ r.fired = 0

C38_LanguageModelTools ==
  pc = "ready" =>
    /\ \A id \in CallerIds, now \in Times :
         \A r \in {CompleteTodoToolInvoke(todos, id, CurrentBranch, now)} :
           /\ ~Known(todos, id, CurrentBranch) => (r.error /\ ToolUntouched(r))
           /\ (Known(todos, id, CurrentBranch) /\ todos[CurrentBranch][id].completed)
                => (~r.error /\ ToolUntouched(r))
           /\ (Known(todos, id, CurrentBranch) /\ ~todos[CurrentBranch][id].completed)
                => /\ ~r.error
                   /\ r.called
                   /\ DOMAIN r.todos = DOMAIN todos
                   /\ \A b \in DOMAIN todos :
                        /\ DOMAIN r.todos[b] = DOMAIN todos[b]
                        /\ \A k \in DOMAIN todos[b] :
                             r.todos[b][k] =
                               IF b = CurrentBranch /\ k = id
                               THEN [todos[b][k] EXCEPT !.completed = TRUE,
                                                        !.completedAt = Some(now)]
                               ELSE todos[b][k]
    /\ \A input \in ToolPriorities :
         GetRemainingTasksToolInvoke(todos, CurrentBranch, input) =
           {k \in DOMAIN BranchTodos(todos, CurrentBranch) :
              /\ ~todos[CurrentBranch][k].completed
              /\ ~todos[CurrentBranch][k].ignored
              /\ (input # None /\ input[1] # "all")
                   => todos[CurrentBranch][k].priority = input[1]}

\* the tool has returned for a completed todo of the feature branch, next
\* to an ignored one on main that get_remaining_tasks leaves out
C38_Witness ==
  /\ lastOp = Op("CompleteTodoTool.invoke/return", FALSE, 0)
  /\ CurrentBranch = "main"
  /\ Known(todos, FileTodoId(tplFile.id, fileA), "main")
  /\ todos["main"][FileTodoId(tplFile.id, fileA)].completed
  /\ Known(todos, FileTodoId(tplFile.id, fileB), "main")
  /\ todos["main"][FileTodoId(tplFile.id, fileB)].ignored
  /\ ~todos["main"][FileTodoId(tplFile.id, fileB)].completed
  /\ Known(todos, BranchTodoId(tplPure.id), "feature/x")
  /\ ~Known(todos, BranchTodoId(tplPure.id), "main")
  /\ GetRemainingTasksToolInvoke(todos, CurrentBranch, Some("high")) = {}

----------------------------------------------------------------------------
(* C39: for every filter mode the tree view shows the header of a priority  *)
(* group exactly when getTodosForGroup lists a todo under it; in mode all   *)
(* every todo of the priority is listed once, the active ones first, then   *)
(* the completed ones, then the ignored ones.                               *)

Listed(segments) == UNION {segments[i] : i \in 1..Len(segments)}

C39_TreeViewConsistent ==
  pc = "ready" =>
    \A filterMode \in FilterModes, group \in PriorityGroups :
      \A label \in {GroupLabel(group, filterMode)} :
        \A shown \in {getTodosForGroup(getTodos(todos, CurrentBranch), label, filterMode)} :
          /\ label \in getPriorityGroups(getTodos(todos, CurrentBranch), filterMode)
               <=> Listed(shown) # {}
          /\ filterMode = "all" =>
               /\ Len(shown) = 3
               /\ Listed(shown) =
                    {t.id : t \in {u \in getTodos(todos, CurrentBranch) :
                                     u.priority = group.priority}}
               /\ shown[1] \cap shown[2] = {}
               /\ shown[1] \cap shown[3] = {}
               /\ shown[2] \cap shown[3] = {}
               /\ \A k \in shown[1] : /\ ~todos[CurrentBranch][k].completed
                                      /\ ~todos[CurrentBranch][k].ignored
               /\ \A k \in shown[2] : todos[CurrentBranch][k].completed
               /\ \A k \in shown[3] : todos[CurrentBranch][k].ignored

----------------------------------------------------------------------------
(* C40: getCurrentBranch returns "default" when there is no repository,     *)
(* when HEAD is undefined and when HEAD has no name, and the name of HEAD   *)
(* otherwise (as stated).                                                   *)

C40_SentinelAsStated ==
  pc = "ready" =>
    CurrentBranch =
      IF ~git.repository \/ git.head = None THEN "default"
      ELSE IF git.head[1].name = None THEN "default"
      ELSE git.head[1].name[1]

(* C40 (amended): getCurrentBranch returns "default" when there is no       *)
(* repository, when HEAD is undefined and when HEAD has neither a name nor  *)
(* a commit; for a HEAD with a commit and no name it returns "detached-"    *)
(* followed by the first seven characters of the commit; otherwise the      *)
(* name of HEAD. While the workspace has no repository every todo is kept   *)
(* under "default", and an operation called without a branch changes the    *)
(* entry of the current branch only.                                        *)

SentinelCases ==
  /\ (~git.repository \/ git.head = None) => CurrentBranch = "default"
  /\ (git.repository /\ git.head # None) =>
       /\ git.head[1].name # None => CurrentBranch = git.head[1].name[1]
       /\ (git.head[1].name = None /\ git.head[1].commit = None)
            => CurrentBranch = "default"
       /\ (git.head[1].name = None /\ git.head[1].commit = Some(sha))
            => CurrentBranch = "detached-abc1234"
  /\ ~git.repository =>
       \A b \in DOMAIN todos : b # "default" => todos[b] = EmptyMap

CurrentBranchOnly ==
  lastOp'.op \in {"createTodosForFile", "completeTodo"} =>
    \A b \in world.branches :
      b # CurrentBranch => BranchEntry(todos', b) = BranchEntry(todos, b)

C40_CurrentBranchSentinel == []SentinelCases /\ [][CurrentBranchOnly]_vars

\* a workspace without repository whose file was evaluated: the todo is
\* under "default"
C40_Witness ==
  /\ ~git.repository
  /\ CurrentBranch = "default"
  /\ lastOp = Op("createTodosForFile", TRUE, 1)
  /\ Known(todos, FileTodoId(tplFile.id, fileA), "default")
  /\ ~MapHas(todos, "main")

====
